---- MODULE Spec2Model ----
(***************************************************************************)
(* Lattice state container of the lattice Vicsek model: the vlmc           *)
(* ParticleLattice (src/vlmc/core/particle_lattice.py), and, in the last    *)
(* part of the model, the older particle_lattice ParticleLattice.           *)
(*                                                                         *)
(* A tensor is a function from layer index 0..n-1 to a layer, and a layer  *)
(* is indexed [y][x] as in the source (griglia[layer, y, x]).              *)
(* Coordinates passed to the operations are in range (0 <= x < width,      *)
(* 0 <= y < height); orientation arguments also take out-of-range values.  *)
(***************************************************************************)
EXTENDS Integers, FiniteSets, Sequences, TLC

\* ---------------------------------------------------------------- bounds
MaxWidth == 2
MaxHeight == 2
MaxCells == 4
\* how far outside 0..NUM_ORIENTATIONS-1 an orientation argument may lie
MaxExtra == 1

\* ------------------------------------------------------ class constants
NUM_ORIENTATIONS == 4
ORIENTATION_LAYERS == <<"up", "left", "down", "right">>

VARIABLES
    width,          \* self.width
    height,         \* self.height
    num_layers,     \* self.num_layers
    griglia,        \* the tensor bound to self.griglia
    layer_indices,  \* self.layer_indices: layer name -> layer index
    base,           \* the tensor that the views self.particles, self.obstacles
                    \* and self.sinks were sliced from in __init__
    shared,         \* TRUE while self.griglia is still that very tensor
    legacy          \* the lattice of the older implementation
                    \* (src/particle_lattice/core/particle_lattice.py), a
                    \* record of its fields; NoLattice where none is made

vars == <<width, height, num_layers, griglia, layer_indices, base, shared, legacy>>

\* the value of legacy in the scenarios that construct no legacy lattice
NoLattice ==
    [width |-> 0, height |-> 0, num_layers |-> 0, lattice |-> <<>>,
     layer_indices |-> <<>>]

\* The object as one record, so that methods are operators on it.
Self ==
    [width |-> width, height |-> height, num_layers |-> num_layers,
     griglia |-> griglia, layer_indices |-> layer_indices,
     base |-> base, shared |-> shared]

Xs(self) == 0 .. self.width - 1
Ys(self) == 0 .. self.height - 1
Orientations == 0 .. NUM_ORIENTATIONS - 1

\* ------------------------------------------------------- tensor helpers
zeros(h, w) == [y \in 0 .. h - 1 |-> [x \in 0 .. w - 1 |-> FALSE]]

NumLayersOf(t) == Cardinality(DOMAIN t)

\* torch.cat((t, layer.unsqueeze(0)), dim=0): a new tensor, one layer longer
cat(t, layer) ==
    [i \in 0 .. NumLayersOf(t) |-> IF i < NumLayersOf(t) THEN t[i] ELSE layer]

shape(layer) == <<Cardinality(DOMAIN layer), Cardinality(DOMAIN layer[0])>>

SetBits(t, layers, y, x, v) ==
    [l \in DOMAIN t |-> IF l \in layers THEN [t[l] EXCEPT ![y][x] = v] ELSE t[l]]

\* A write through one of the views lands in the tensor they were sliced
\* from; self.griglia sees it only while it is that same tensor.
WriteView(self, layers, y, x, v) ==
    [self EXCEPT !.base = SetBits(@, layers, y, x, v),
                 !.griglia = IF self.shared THEN SetBits(@, layers, y, x, v) ELSE @]

\* The views taken in __init__: self.particles = griglia[:NUM_ORIENTATIONS],
\* self.obstacles = griglia[layer_indices["obstacles"]] and
\* self.sinks = griglia[layer_indices["sinks"]], which are layers 4 and 5 then.
ObstaclesViewLayer == 4
SinksViewLayer == 5
particles(self) == [i \in Orientations |-> self.base[i]]
obstacles(self) == self.base[ObstaclesViewLayer]
sinks(self) == self.base[SinksViewLayer]

\* The outcome of a call: the object afterwards, the exception raised
\* ("none" when the call returns) and the value returned.
Raise(self, e) == [self |-> self, exc |-> e, val |-> "none"]
Return(self, v) == [self |-> self, exc |-> "none", val |-> v]
Raised(r) == r.exc # "none"
Returned(r, v) == r.exc = "none" /\ r.val = v

\* ------------------------------------------------------------- queries
\* variant: only the first orientation layer is looked at
is_empty_first_layer(self, x, y) == ~ particles(self)[0][y][x]

is_empty(self, x, y) == ~ \E i \in Orientations : particles(self)[i][y][x]

is_obstacle(self, x, y) ==
    /\ "obstacles" \in DOMAIN self.layer_indices
    /\ self.griglia[self.layer_indices["obstacles"]][y][x]

\* variant: the sink layer is never consulted
is_sink_never(self, x, y) == FALSE

is_sink(self, x, y) ==
    /\ "sinks" \in DOMAIN self.layer_indices
    /\ self.griglia[self.layer_indices["sinks"]][y][x]

\* variant: an empty cell reads as orientation 0 instead of raising
get_particle_orientation_default(self, x, y) ==
    LET orientation == {i \in Orientations : particles(self)[i][y][x]}
    IN IF Cardinality(orientation) = 1
       THEN Return(self, CHOOSE i \in orientation : TRUE)
       ELSE Return(self, 0)

\* orientation.item() needs exactly one set bit
get_particle_orientation(self, x, y) ==
    IF is_empty(self, x, y)
    THEN Raise(self, "ValueError")
    ELSE LET orientation == {i \in Orientations : particles(self)[i][y][x]}
         IN IF Cardinality(orientation) = 1
            THEN Return(self, CHOOSE i \in orientation : TRUE)
            ELSE Raise(self, "RuntimeError")

\* variant: the new coordinate is not wrapped around
get_target_position_unwrapped(self, x, y, orientation) ==
    IF orientation < 0 \/ orientation >= NUM_ORIENTATIONS
    THEN Raise(self, "ValueError")
    ELSE IF orientation = self.layer_indices["up"]
         THEN Return(self, <<x, y - 1>>)
    ELSE IF orientation = self.layer_indices["down"]
         THEN Return(self, <<x, y + 1>>)
    ELSE IF orientation = self.layer_indices["left"]
         THEN Return(self, <<x - 1, y>>)
    ELSE IF orientation = self.layer_indices["right"]
         THEN Return(self, <<x + 1, y>>)
    ELSE Raise(self, "UnboundLocalError")

\* variant: up steps to y + 1 and down to y - 1
get_target_position_inverted(self, x, y, orientation) ==
    IF orientation < 0 \/ orientation >= NUM_ORIENTATIONS
    THEN Raise(self, "ValueError")
    ELSE IF orientation = self.layer_indices["up"]
         THEN Return(self, <<x, (y + 1) % self.height>>)
    ELSE IF orientation = self.layer_indices["down"]
         THEN Return(self, <<x, (y - 1) % self.height>>)
    ELSE IF orientation = self.layer_indices["left"]
         THEN Return(self, <<(x - 1) % self.width, y>>)
    ELSE IF orientation = self.layer_indices["right"]
         THEN Return(self, <<(x + 1) % self.width, y>>)
    ELSE Raise(self, "UnboundLocalError")

get_target_position(self, x, y, orientation) ==
    IF orientation < 0 \/ orientation >= NUM_ORIENTATIONS
    THEN Raise(self, "ValueError")
    ELSE IF orientation = self.layer_indices["up"]
         THEN Return(self, <<x, (y - 1) % self.height>>)
    ELSE IF orientation = self.layer_indices["down"]
         THEN Return(self, <<x, (y + 1) % self.height>>)
    ELSE IF orientation = self.layer_indices["left"]
         THEN Return(self, <<(x - 1) % self.width, y>>)
    ELSE IF orientation = self.layer_indices["right"]
         THEN Return(self, <<(x + 1) % self.width, y>>)
    ELSE Raise(self, "UnboundLocalError")

\* ------------------------------------------------------------ add_layer
add_layer(self, layer, layer_name) ==
    IF shape(layer) # <<self.height, self.width>>
    THEN Raise(self, "ValueError")
    ELSE LET n == IF layer_name \in DOMAIN self.layer_indices
                  THEN self.num_layers - 1
                  ELSE self.num_layers
         IN Return([self EXCEPT
                !.griglia = cat(self.griglia, layer),
                !.shared = FALSE,
                !.layer_indices =
                    [k \in DOMAIN self.layer_indices \cup {layer_name} |->
                        IF k = layer_name THEN n ELSE self.layer_indices[k]],
                !.num_layers = n + 1], "None")

\* --------------------------------------------------------- add_particle
\* variant: the occupancy test is dropped
add_particle_unchecked(self, x, y, orientation) ==
    IF ~ is_obstacle(self, x, y)
    THEN IF orientation \in -NUM_ORIENTATIONS .. NUM_ORIENTATIONS - 1
         THEN Return(WriteView(self, {orientation % NUM_ORIENTATIONS}, y, x, TRUE), "None")
         ELSE Raise(self, "IndexError")
    ELSE Raise(self, "ValueError")

\* variant: the obstacle test is dropped
add_particle_on_obstacle(self, x, y, orientation) ==
    IF is_empty(self, x, y)
    THEN IF orientation \in -NUM_ORIENTATIONS .. NUM_ORIENTATIONS - 1
         THEN Return(WriteView(self, {orientation % NUM_ORIENTATIONS}, y, x, TRUE), "None")
         ELSE Raise(self, "IndexError")
    ELSE Raise(self, "ValueError")

\* variant: the bit is set in the next orientation layer
add_particle_shifted(self, x, y, orientation) ==
    IF is_empty(self, x, y) /\ ~ is_obstacle(self, x, y)
    THEN IF orientation \in -NUM_ORIENTATIONS .. NUM_ORIENTATIONS - 1
         THEN Return(WriteView(self, {(orientation + 1) % NUM_ORIENTATIONS}, y, x, TRUE), "None")
         ELSE Raise(self, "IndexError")
    ELSE Raise(self, "ValueError")

\* particles[orientation, y, x] = True: the view has NUM_ORIENTATIONS layers,
\* a negative index counts from the end, anything else is an IndexError.
add_particle(self, x, y, orientation) ==
    IF is_empty(self, x, y) /\ ~ is_obstacle(self, x, y)
    THEN IF orientation \in -NUM_ORIENTATIONS .. NUM_ORIENTATIONS - 1
         THEN Return(WriteView(self, {orientation % NUM_ORIENTATIONS}, y, x, TRUE), "None")
         ELSE Raise(self, "IndexError")
    ELSE Raise(self, "ValueError")

\* ------------------------------------------------------ remove_particle
\* variant: only the first orientation layer is cleared
remove_particle_first_layer(self, x, y) ==
    IF x < 0 \/ x >= self.width \/ y < 0 \/ y >= self.height
    THEN Raise(self, "ValueError")
    ELSE Return(WriteView(self, {0}, y, x, FALSE), "None")

\* variant: removing from an empty cell is an error
remove_particle_strict(self, x, y) ==
    IF x < 0 \/ x >= self.width \/ y < 0 \/ y >= self.height
    THEN Raise(self, "ValueError")
    ELSE IF is_empty(self, x, y)
    THEN Raise(self, "ValueError")
    ELSE Return(WriteView(self, Orientations, y, x, FALSE), "None")

\* The two warnings leave no trace in the object.
remove_particle(self, x, y) ==
    IF x < 0 \/ x >= self.width \/ y < 0 \/ y >= self.height
    THEN Raise(self, "ValueError")
    ELSE Return(WriteView(self, Orientations, y, x, FALSE), "None")

\* -------------------------------------------------------- move_particle
\* variant: the target is not tested before the particle is removed
move_particle_unguarded(self, x, y) ==
    IF is_empty(self, x, y)
    THEN Raise(self, "ValueError")
    ELSE
    LET ro == get_particle_orientation(self, x, y) IN
    IF Raised(ro) THEN ro ELSE
    LET orientation == ro.val
        rt == get_target_position(self, x, y, orientation) IN
    IF Raised(rt) THEN rt ELSE
    LET new_x == rt.val[1]
        new_y == rt.val[2]
        rr == remove_particle(self, x, y)
        ra == add_particle(rr.self, new_x, new_y, orientation) IN
    IF is_sink(self, new_x, new_y)
    THEN (IF Raised(rr) THEN rr ELSE Return(rr.self, TRUE))
    ELSE IF Raised(rr) THEN rr
    ELSE IF Raised(ra) THEN ra
    ELSE Return(ra.self, TRUE)

move_particle(self, x, y) ==
    IF is_empty(self, x, y)
    THEN Raise(self, "ValueError")
    ELSE
    LET ro == get_particle_orientation(self, x, y) IN
    IF Raised(ro) THEN ro ELSE
    LET orientation == ro.val
        rt == get_target_position(self, x, y, orientation) IN
    IF Raised(rt) THEN rt ELSE
    LET new_x == rt.val[1]
        new_y == rt.val[2]
        rr == remove_particle(self, x, y)
        ra == add_particle(rr.self, new_x, new_y, orientation) IN
    IF is_obstacle(self, new_x, new_y) \/ ~ is_empty(self, new_x, new_y)
    THEN Return(self, FALSE)
    ELSE IF is_sink(self, new_x, new_y)
    THEN (IF Raised(rr) THEN rr ELSE Return(rr.self, TRUE))
    ELSE IF Raised(rr) THEN rr
    ELSE IF Raised(ra) THEN ra
    ELSE Return(ra.self, TRUE)

\* ---------------------------------------------------- reorient_particle
\* variant: the current orientation is not compared with the new one
reorient_particle_always(self, x, y, new_orientation) ==
    IF new_orientation < 0 \/ new_orientation >= NUM_ORIENTATIONS
    THEN Raise(self, "IndexError")
    ELSE
    LET rc == get_particle_orientation(self, x, y) IN
    IF Raised(rc) THEN rc ELSE
    LET rr == remove_particle(self, x, y)
        ra == add_particle(rr.self, x, y, new_orientation) IN
    IF Raised(rr) THEN rr
    ELSE IF Raised(ra) THEN ra
    ELSE Return(ra.self, TRUE)

\* variant: the particle is not removed before it is added again
reorient_particle_keep_old(self, x, y, new_orientation) ==
    IF new_orientation < 0 \/ new_orientation >= NUM_ORIENTATIONS
    THEN Raise(self, "IndexError")
    ELSE
    LET rc == get_particle_orientation(self, x, y) IN
    IF Raised(rc) THEN rc ELSE
    LET current_orientation == rc.val
        ra == add_particle_unchecked(self, x, y, new_orientation) IN
    IF current_orientation = new_orientation
    THEN Return(self, FALSE)
    ELSE IF Raised(ra) THEN ra
    ELSE Return(ra.self, TRUE)

\* variant: the range of the new orientation is not checked
reorient_particle_unchecked(self, x, y, new_orientation) ==
    LET rc == get_particle_orientation(self, x, y) IN
    IF Raised(rc) THEN rc ELSE
    LET current_orientation == rc.val
        rr == remove_particle(self, x, y)
        ra == add_particle(rr.self, x, y, new_orientation) IN
    IF current_orientation = new_orientation
    THEN Return(self, FALSE)
    ELSE IF Raised(rr) THEN rr
    ELSE IF Raised(ra) THEN ra
    ELSE Return(ra.self, TRUE)

reorient_particle(self, x, y, new_orientation) ==
    IF new_orientation < 0 \/ new_orientation >= NUM_ORIENTATIONS
    THEN Raise(self, "IndexError")
    ELSE
    LET rc == get_particle_orientation(self, x, y) IN
    IF Raised(rc) THEN rc ELSE
    LET current_orientation == rc.val
        rr == remove_particle(self, x, y)
        ra == add_particle(rr.self, x, y, new_orientation) IN
    IF current_orientation = new_orientation
    THEN Return(self, FALSE)
    ELSE IF Raised(rr) THEN rr
    ELSE IF Raised(ra) THEN ra
    ELSE Return(ra.self, TRUE)

\* ------------------------------------------------ set_obstacle, set_sink
\* variant: the occupancy test is dropped
set_obstacle_on_particle(self, x, y) ==
    IF 0 <= x /\ x < self.width /\ 0 <= y /\ y < self.height
    THEN IF is_sink(self, x, y)
         THEN Raise(self, "ValueError")
         ELSE Return(WriteView(self, {ObstaclesViewLayer}, y, x, TRUE), "None")
    ELSE Raise(self, "ValueError")

\* variant: a sink cell is not refused, its sink bit is cleared
set_obstacle_over_sink(self, x, y) ==
    IF 0 <= x /\ x < self.width /\ 0 <= y /\ y < self.height
    THEN IF ~ is_empty(self, x, y)
         THEN Raise(self, "ValueError")
         ELSE LET s1 == IF is_sink(self, x, y)
                        THEN WriteView(self, {SinksViewLayer}, y, x, FALSE)
                        ELSE self
              IN Return(WriteView(s1, {ObstaclesViewLayer}, y, x, TRUE), "None")
    ELSE Raise(self, "ValueError")

set_obstacle(self, x, y) ==
    IF 0 <= x /\ x < self.width /\ 0 <= y /\ y < self.height
    THEN IF ~ is_empty(self, x, y) \/ is_sink(self, x, y)
         THEN Raise(self, "ValueError")
         ELSE LET s1 == IF is_sink(self, x, y)
                        THEN WriteView(self, {SinksViewLayer}, y, x, FALSE)
                        ELSE self
              IN Return(WriteView(s1, {ObstaclesViewLayer}, y, x, TRUE), "None")
    ELSE Raise(self, "ValueError")

\* variant: the occupancy test is dropped
set_sink_on_particle(self, x, y) ==
    IF 0 <= x /\ x < self.width /\ 0 <= y /\ y < self.height
    THEN IF is_obstacle(self, x, y)
         THEN Raise(self, "ValueError")
         ELSE Return(WriteView(self, {SinksViewLayer}, y, x, TRUE), "None")
    ELSE Raise(self, "ValueError")

\* variant: the obstacle test is dropped
set_sink_over_obstacle(self, x, y) ==
    IF 0 <= x /\ x < self.width /\ 0 <= y /\ y < self.height
    THEN IF ~ is_empty(self, x, y)
         THEN Raise(self, "ValueError")
         ELSE Return(WriteView(self, {SinksViewLayer}, y, x, TRUE), "None")
    ELSE Raise(self, "ValueError")

set_sink(self, x, y) ==
    IF 0 <= x /\ x < self.width /\ 0 <= y /\ y < self.height
    THEN IF ~ is_empty(self, x, y) \/ is_obstacle(self, x, y)
         THEN Raise(self, "ValueError")
         ELSE Return(WriteView(self, {SinksViewLayer}, y, x, TRUE), "None")
    ELSE Raise(self, "ValueError")

\* ------------------------------------------------------------ compute_tm
\* m.roll(shifts, dims) of a (height, width) tensor: the entry at index i
\* along dims comes from index (i - shifts) modulo the size.
roll(m, shifts, dims) ==
    LET h == Cardinality(DOMAIN m)
        w == Cardinality(DOMAIN m[0])
    IN [y \in 0 .. h - 1 |-> [x \in 0 .. w - 1 |->
           IF dims = 0 THEN m[(y - shifts) % h][x] ELSE m[y][(x - shifts) % w]]]

\* variant: the obstacle mask is left out of the emptiness test
compute_tm_through_obstacles(self, v0) ==
    LET empty_cells == [y \in Ys(self) |-> [x \in Xs(self) |->
            ~ \E i \in Orientations : particles(self)[i][y][x]]]
        e_up == roll(empty_cells, 1, 0)
        e_down == roll(empty_cells, -1, 0)
        e_left == roll(empty_cells, 1, 1)
        e_right == roll(empty_cells, -1, 1)
        TM == [y \in Ys(self) |-> [x \in Xs(self) |->
            \/ particles(self)[self.layer_indices["up"]][y][x] /\ e_up[y][x]
            \/ particles(self)[self.layer_indices["down"]][y][x] /\ e_down[y][x]
            \/ particles(self)[self.layer_indices["left"]][y][x] /\ e_left[y][x]
            \/ particles(self)[self.layer_indices["right"]][y][x] /\ e_right[y][x]]]
    IN Return(self, [y \in Ys(self) |-> [x \in Xs(self) |->
           IF TM[y][x] THEN v0 ELSE 0]])

\* variant: the first product is formed in place, in the layer of the
\* up-oriented particles
compute_tm_in_place(self, v0) ==
    LET r == compute_tm_through_obstacles(self, v0)
        e_up == roll([y \in Ys(self) |-> [x \in Xs(self) |->
                    ~ ((\E i \in Orientations : particles(self)[i][y][x])
                       \/ obstacles(self)[y][x])]], 1, 0)
        up == self.layer_indices["up"]
        written == [l \in DOMAIN self.base |->
            IF l = up
            THEN [y \in Ys(self) |-> [x \in Xs(self) |->
                     self.base[l][y][x] /\ e_up[y][x]]]
            ELSE self.base[l]]
    IN Return([self EXCEPT !.base = written,
                           !.griglia = IF self.shared THEN written ELSE @], r.val)

\* variant: the sink mask is left in the emptiness test with the obstacles
compute_tm_sinks_closed(self, v0) ==
    LET empty_cells == [y \in Ys(self) |-> [x \in Xs(self) |->
            ~ ((\E i \in Orientations : particles(self)[i][y][x])
               \/ obstacles(self)[y][x] \/ sinks(self)[y][x])]]
        e_up == roll(empty_cells, 1, 0)
        e_down == roll(empty_cells, -1, 0)
        e_left == roll(empty_cells, 1, 1)
        e_right == roll(empty_cells, -1, 1)
        TM == [y \in Ys(self) |-> [x \in Xs(self) |->
            \/ particles(self)[self.layer_indices["up"]][y][x] /\ e_up[y][x]
            \/ particles(self)[self.layer_indices["down"]][y][x] /\ e_down[y][x]
            \/ particles(self)[self.layer_indices["left"]][y][x] /\ e_left[y][x]
            \/ particles(self)[self.layer_indices["right"]][y][x] /\ e_right[y][x]]]
    IN Return(self, [y \in Ys(self) |-> [x \in Xs(self) |->
           IF TM[y][x] THEN v0 ELSE 0]])

\* The four products and their sum are boolean tensors (the sum of booleans
\* is their disjunction), so the result has one entry per cell, v0 or 0.
compute_tm(self, v0) ==
    LET empty_cells == [y \in Ys(self) |-> [x \in Xs(self) |->
            ~ ((\E i \in Orientations : particles(self)[i][y][x])
               \/ obstacles(self)[y][x])]]
        e_up == roll(empty_cells, 1, 0)
        e_down == roll(empty_cells, -1, 0)
        e_left == roll(empty_cells, 1, 1)
        e_right == roll(empty_cells, -1, 1)
        TM == [y \in Ys(self) |-> [x \in Xs(self) |->
            \/ particles(self)[self.layer_indices["up"]][y][x] /\ e_up[y][x]
            \/ particles(self)[self.layer_indices["down"]][y][x] /\ e_down[y][x]
            \/ particles(self)[self.layer_indices["left"]][y][x] /\ e_left[y][x]
            \/ particles(self)[self.layer_indices["right"]][y][x] /\ e_right[y][x]]]
    IN Return(self, [y \in Ys(self) |-> [x \in Xs(self) |->
           IF TM[y][x] THEN v0 ELSE 0]])

\* -------------------------------------------------------- compute_log_tr
\* variant: the layer is padded with zeros, without wrap-around
pad_zeros(m, h, w) ==
    [y \in -1 .. h |-> [x \in -1 .. w |->
        IF y \in 0 .. h - 1 /\ x \in 0 .. w - 1 THEN m[y][x] ELSE FALSE]]

\* The layer with its last column put before it and its first column after
\* it, then the same with the rows: indices run from -1 to the size.
pad(m, h, w) == [y \in -1 .. h |-> [x \in -1 .. w |-> m[y % h][x % w]]]

\* F.conv2d with the kernel [[0,1,0],[1,0,1],[0,1,0]] and no padding: each
\* output entry is the sum of the four entries around it in the input.
conv2d(input, h, w) ==
    LET f(b) == IF b THEN 1 ELSE 0
    IN [y \in 0 .. h - 1 |-> [x \in 0 .. w - 1 |->
           f(input[y - 1][x]) + f(input[y][x - 1])
           + f(input[y][x + 1]) + f(input[y + 1][x])]]

compute_log_tr(self) ==
    LET TR_tensor == [index \in Orientations |->
            conv2d(pad(particles(self)[index], self.height, self.width),
                   self.height, self.width)]
        up_index == self.layer_indices["up"]
        down_index == self.layer_indices["down"]
        left_index == self.layer_indices["left"]
        right_index == self.layer_indices["right"]
        minus(a, b) == [y \in Ys(self) |-> [x \in Xs(self) |->
            TR_tensor[a][y][x] - TR_tensor[b][y][x]]]
        vertical == [TR_tensor EXCEPT ![up_index] = minus(up_index, down_index),
                                      ![down_index] = minus(down_index, up_index)]
    IN Return(self, [vertical EXCEPT ![left_index] = minus(left_index, right_index),
                                    ![right_index] = minus(right_index, left_index)])

\* ------------------------------------------------------------ compute_tr
\* A float32 rate: 0, exp(e) for the exponent e, infinity or not-a-number.
FZero == [kind |-> "zero", e |-> 0]
FInf == [kind |-> "inf", e |-> 0]
FNaN == [kind |-> "nan", e |-> 0]
FExp(e) == [kind |-> "exp", e |-> e]

\* torch.exp on a float32 tensor: the result is infinity from e = 89 on
\* (exp(88.73) exceeds the largest float32) and rounds to 0 from e = -104
\* down (exp(-103.98) is below half the smallest float32).
exp(e) == IF e >= 89 THEN FInf ELSE IF e <= -104 THEN FZero ELSE FExp(e)

\* A float32 times a boolean mask entry: times 1.0 or times 0.0, and
\* infinity times 0.0 is not-a-number.
mul(v, b) ==
    IF b THEN v
    ELSE IF v.kind \in {"inf", "nan"} THEN FNaN ELSE FZero

compute_tr(self, g) ==
    LET occupied_cells == [y \in Ys(self) |-> [x \in Xs(self) |->
            \E i \in Orientations : particles(self)[i][y][x]]]
        log_tr == compute_log_tr(self).val
        tr == [i \in Orientations |-> [y \in Ys(self) |-> [x \in Xs(self) |->
            mul(exp(g * log_tr[i][y][x]), occupied_cells[y][x])]]]
    IN Return(self, [i \in Orientations |-> [y \in Ys(self) |-> [x \in Xs(self) |->
           mul(tr[i][y][x], ~ particles(self)[i][y][x])]]])

\* ----------------------------------------------- compute_order_parameter
\* The unit vectors, in the order the loop pairs them with the layers
\* 0, 1, 2, 3.
orientation_vectors == <<<<0, 1>>, <<0, -1>>, <<-1, 0>>, <<1, 0>>>>

\* layer.sum().item(): the number of set bits of a layer
sum(layer) ==
    Cardinality({c \in (DOMAIN layer) \X (DOMAIN layer[0]) : layer[c[1]][c[2]]})

\* variant: the sum of the vectors is not divided by the number of particles
compute_order_parameter_unnormalised(self) ==
    LET n == [i \in Orientations |-> sum(particles(self)[i])]
        sx == n[0] * orientation_vectors[1][1] + n[1] * orientation_vectors[2][1]
              + n[2] * orientation_vectors[3][1] + n[3] * orientation_vectors[4][1]
        sy == n[0] * orientation_vectors[1][2] + n[1] * orientation_vectors[2][2]
              + n[2] * orientation_vectors[3][2] + n[3] * orientation_vectors[4][2]
    IN Return(self, [num |-> sx * sx + sy * sy, den |-> 1])

\* The value returned is the length of the vector (sx, sy) / total, given
\* here by its square as the fraction num / den.
compute_order_parameter(self) ==
    LET n == [i \in Orientations |-> sum(particles(self)[i])]
        sx == n[0] * orientation_vectors[1][1] + n[1] * orientation_vectors[2][1]
              + n[2] * orientation_vectors[3][1] + n[3] * orientation_vectors[4][1]
        sy == n[0] * orientation_vectors[1][2] + n[1] * orientation_vectors[2][2]
              + n[2] * orientation_vectors[3][2] + n[3] * orientation_vectors[4][2]
        total_particles == n[0] + n[1] + n[2] + n[3]
    IN IF total_particles = 0
       THEN Return(self, [num |-> 0, den |-> 1])
       ELSE Return(self, [num |-> sx * sx + sy * sy,
                          den |-> total_particles * total_particles])

\* density is the fraction number_of_particles / (width * height), given by
\* its numerator and denominator.
get_statistics(self) ==
    LET n == [i \in Orientations |-> sum(particles(self)[i])]
        num_particles == n[0] + n[1] + n[2] + n[3]
        order_parameter == compute_order_parameter(self)
    IN Return(order_parameter.self,
              [number_of_particles |-> num_particles,
               density |-> <<num_particles, self.width * self.height>>,
               order_parameter |-> order_parameter.val,
               orientation_counts |-> n])

\* ----------------------------------------------------- initialize_lattice
\* positions: the cells drawn without replacement (a set of cell numbers),
\* orientations: the orientation drawn for each.  Each draw touches its own
\* cell only, so the order of the draws does not matter; the orientation
\* drawn for a position on an obstacle is never read.
RECURSIVE initialize_lattice(_, _, _)
initialize_lattice(self, positions, orientations) ==
    IF positions = {}
    THEN Return(self, "None")
    ELSE LET pos == CHOOSE p \in positions : TRUE
             y == pos \div self.width
             x == pos % self.width
             r == IF ~ is_obstacle(self, x, y)
                  THEN add_particle(self, x, y, orientations[pos])
                  ELSE Return(self, "None")
         IN IF Raised(r)
            THEN r
            ELSE initialize_lattice(r.self, positions \ {pos}, orientations)

\* -------------------------------------------------------------- __init__
\* The part of __init__ before the particles are placed: the empty tensor,
\* the two terrain layers and the views.  obstacles0, sinks0: the masks
\* passed in (all False when None is passed).
attach_terrain(w, h, obstacles0, sinks0) ==
    LET s0 == [width |-> w, height |-> h, num_layers |-> NUM_ORIENTATIONS,
               griglia |-> [i \in Orientations |-> zeros(h, w)],
               layer_indices |->
                   [name \in {ORIENTATION_LAYERS[i] : i \in 1 .. NUM_ORIENTATIONS} |->
                       (CHOOSE i \in 1 .. NUM_ORIENTATIONS : ORIENTATION_LAYERS[i] = name) - 1],
               base |-> [i \in Orientations |-> zeros(h, w)],
               shared |-> FALSE]
        r1 == add_layer(s0, obstacles0, "obstacles")
        r2 == add_layer(r1.self, sinks0, "sinks")
    IN IF Raised(r1) THEN r1
       ELSE IF Raised(r2) THEN r2
       ELSE Return([r2.self EXCEPT !.base = r2.self.griglia, !.shared = TRUE], "None")

\* The whole of __init__, given the outcome of its first part.
construct(attached, positions, orientations) ==
    IF Raised(attached)
    THEN attached
    ELSE initialize_lattice(attached.self, positions, orientations)

\* ------------------------------------------------------------- the calls
\* A call leaves the object as the method left it, whether it returned
\* or raised; a lattice of the other implementation is not touched.
Call(r) ==
    /\ width' = r.self.width
    /\ height' = r.self.height
    /\ num_layers' = r.self.num_layers
    /\ griglia' = r.self.griglia
    /\ layer_indices' = r.self.layer_indices
    /\ base' = r.self.base
    /\ shared' = r.self.shared
    /\ legacy' = legacy

Shapes ==
    {s \in (1 .. MaxWidth) \X (1 .. MaxHeight) : s[1] * s[2] <= MaxCells}

OrientationArgs == (0 - MaxExtra) .. (NUM_ORIENTATIONS - 1 + MaxExtra)

Init ==
    \E s \in Shapes :
    \E obstacles0 \in [0 .. s[2] - 1 -> [0 .. s[1] - 1 -> BOOLEAN]] :
    \E sinks0 \in [0 .. s[2] - 1 -> [0 .. s[1] - 1 -> BOOLEAN]] :
    \E attached \in {attach_terrain(s[1], s[2], obstacles0, sinks0)} :
    \E positions \in SUBSET (0 .. s[1] * s[2] - 1) :
    \E orientations \in [{p \in positions : ~ obstacles0[p \div s[1]][p % s[1]]} -> Orientations] :
    \E r \in {construct(attached, positions, orientations)} :
           /\ ~ Raised(r)
           /\ width = r.self.width
           /\ height = r.self.height
           /\ num_layers = r.self.num_layers
           /\ griglia = r.self.griglia
           /\ layer_indices = r.self.layer_indices
           /\ base = r.self.base
           /\ shared = r.self.shared
           /\ legacy = NoLattice

AddParticle ==
    \E x \in Xs(Self), y \in Ys(Self), o \in OrientationArgs :
        \E r \in {add_particle(Self, x, y, o)} : Call(r)

RemoveParticle ==
    \E x \in Xs(Self), y \in Ys(Self) :
        \E r \in {remove_particle(Self, x, y)} : Call(r)

MoveParticle ==
    \E x \in Xs(Self), y \in Ys(Self) :
        \E r \in {move_particle(Self, x, y)} : Call(r)

ReorientParticle ==
    \E x \in Xs(Self), y \in Ys(Self), o \in OrientationArgs :
        \E r \in {reorient_particle(Self, x, y, o)} : Call(r)

SetObstacle ==
    \E x \in Xs(Self), y \in Ys(Self) :
        \E r \in {set_obstacle(Self, x, y)} : Call(r)

SetSink ==
    \E x \in Xs(Self), y \in Ys(Self) :
        \E r \in {set_sink(Self, x, y)} : Call(r)

Next ==
    \/ AddParticle
    \/ RemoveParticle
    \/ MoveParticle
    \/ ReorientParticle
    \/ SetObstacle
    \/ SetSink

Spec == Init /\ [][Next]_vars

\* ------------------------------------------------------ line lattices
\* Lattices one cell high or one cell wide and up to MaxSpan cells long:
\* with three cells in a row the left and the right neighbour of a cell
\* differ.  The lattice is constructed with its terrain masks and the
\* default density 0.0, and particles are added afterwards.
MaxSpan == 3

LineShapes ==
    {<<n, 1>> : n \in 1 .. MaxSpan} \cup {<<1, n>> : n \in 1 .. MaxSpan}

InitLines ==
    \E s \in LineShapes :
    \E obstacles0 \in [0 .. s[2] - 1 -> [0 .. s[1] - 1 -> BOOLEAN]] :
    \E sinks0 \in [0 .. s[2] - 1 -> [0 .. s[1] - 1 -> BOOLEAN]] :
    \E attached \in {attach_terrain(s[1], s[2], obstacles0, sinks0)} :
    \E r \in {construct(attached, {}, <<>>)} :
           /\ ~ Raised(r)
           /\ width = r.self.width
           /\ height = r.self.height
           /\ num_layers = r.self.num_layers
           /\ griglia = r.self.griglia
           /\ layer_indices = r.self.layer_indices
           /\ base = r.self.base
           /\ shared = r.self.shared
           /\ legacy = NoLattice

GetTargetPosition ==
    \E x \in Xs(Self), y \in Ys(Self), o \in OrientationArgs :
        Call(get_target_position(Self, x, y, o))

\* Particles are added, turned and moved, and targets are asked for.
NextMotion ==
    \/ AddParticle
    \/ MoveParticle
    \/ ReorientParticle
    \/ GetTargetPosition

SpecMotion == InitLines /\ [][NextMotion]_vars

\* ------------------------------------------------- construction by density
\* A density is given in steps of 1 / DensitySteps: the argument d stands
\* for the density d / DensitySteps, d in 0 .. DensitySteps.
DensitySteps == 4

Densities == 0 .. DensitySteps

\* variant: the product is rounded up
num_particles_rounded_up(self, density) ==
    (density * (self.width * self.height) + DensitySteps - 1) \div DensitySteps

\* int(density * num_cells): the product with its fraction cut off
num_particles(self, density) ==
    (density * (self.width * self.height)) \div DensitySteps

\* np.random.choice(num_cells, num_particles, replace=False): the sets of
\* num_particles different cell numbers it can return
choice(num_cells, n) ==
    {positions \in SUBSET (0 .. num_cells - 1) : Cardinality(positions) = n}

\* ParticleLattice(width, height, density, obstacles, sinks), given the
\* positions and the orientations that are drawn.
New(w, h, obstacles0, sinks0, positions, orientations) ==
    construct(attach_terrain(w, h, obstacles0, sinks0), positions, orientations)

\* With the shape and the masks of a lattice that holds no particle, a
\* lattice is constructed with some density.
Construct ==
    /\ \A x \in Xs(Self), y \in Ys(Self) : is_empty(Self, x, y)
    /\ \E density \in Densities :
       \E positions \in choice(width * height, num_particles(Self, density)) :
       \E orientations \in [positions -> Orientations] :
       \E r \in {New(width, height, obstacles(Self), sinks(Self), positions, orientations)} :
           ~ Raised(r) /\ Call(r)

SpecPlacement == InitLines /\ [][Construct]_vars

\* ------------------------------------------- primitives on line lattices
\* The six mutation primitives, applied in any order to a line lattice
\* constructed with its terrain masks and the default density 0.0.
NextTerrain ==
    \/ AddParticle
    \/ RemoveParticle
    \/ MoveParticle
    \/ ReorientParticle
    \/ SetObstacle
    \/ SetSink

SpecTerrain == InitLines /\ [][NextTerrain]_vars

\* ------------------------------------------------- the rate-driven cycle
\* The lattice as an event loop uses it: particles are added and moved,
\* and in between the rates, the order parameter and the statistics are
\* computed from the lattice.
MaxV0 == 2
MaxG == 60

\* The lattice is constructed with masks that do not overlap, the terrain
\* a run is given, and the default density 0.0.
InitRates ==
    \E s \in LineShapes :
    \E obstacles0 \in [0 .. s[2] - 1 -> [0 .. s[1] - 1 -> BOOLEAN]] :
    \E sinks0 \in {m \in [0 .. s[2] - 1 -> [0 .. s[1] - 1 -> BOOLEAN]] :
                      \A y \in 0 .. s[2] - 1, x \in 0 .. s[1] - 1 :
                          ~ (m[y][x] /\ obstacles0[y][x])} :
    \E attached \in {attach_terrain(s[1], s[2], obstacles0, sinks0)} :
    \E r \in {construct(attached, {}, <<>>)} :
           /\ ~ Raised(r)
           /\ width = r.self.width
           /\ height = r.self.height
           /\ num_layers = r.self.num_layers
           /\ griglia = r.self.griglia
           /\ layer_indices = r.self.layer_indices
           /\ base = r.self.base
           /\ shared = r.self.shared
           /\ legacy = NoLattice

\* no speed and the speed MaxV0
V0Values == {0, MaxV0}
\* an ordinary sensitivity and a large one
GValues == {1, MaxG}

ComputeTm ==
    \E v0 \in V0Values : Call(compute_tm(Self, v0))

ComputeLogTr ==
    Call(compute_log_tr(Self))

ComputeTr ==
    \E g \in GValues : Call(compute_tr(Self, g))

ComputeOrderParameter ==
    Call(compute_order_parameter(Self))

GetStatistics ==
    Call(get_statistics(Self))

NextRates ==
    \/ AddParticle
    \/ MoveParticle
    \/ ComputeTm
    \/ ComputeLogTr
    \/ ComputeTr
    \/ ComputeOrderParameter
    \/ GetStatistics

SpecRates == InitRates /\ [][NextRates]_vars

\* ------------------------------------------------ layers attached later
\* A lattice of one row, up to MaxRow cells wide, constructed with its
\* terrain masks and the default density 0.0; after construction layers
\* are attached by name, up to MaxAttached times, terrain is set and
\* looked up, particles are added and the tensor is queried.
MaxRow == 2
MaxAttached == 1

InitRow ==
    \E w \in 1 .. MaxRow :
    \E obstacles0 \in [0 .. 0 -> [0 .. w - 1 -> BOOLEAN]] :
    \E sinks0 \in [0 .. 0 -> [0 .. w - 1 -> BOOLEAN]] :
    \E r \in {New(w, 1, obstacles0, sinks0, {}, <<>>)} :
           /\ ~ Raised(r)
           /\ width = r.self.width
           /\ height = r.self.height
           /\ num_layers = r.self.num_layers
           /\ griglia = r.self.griglia
           /\ layer_indices = r.self.layer_indices
           /\ base = r.self.base
           /\ shared = r.self.shared
           /\ legacy = NoLattice

\* the boolean masks of the lattice's shape
Masks(self) == [Ys(self) -> [Xs(self) -> BOOLEAN]]

\* the two terrain names and a name of the caller's own
LayerNames == {"obstacles", "sinks", "boundary"}

\* the layers passed to add_layer: any mask of the lattice's shape, and a
\* mask one column too wide
LayerArgs(self) == Masks(self) \cup {zeros(self.height, self.width + 1)}

AddLayer ==
    /\ NumLayersOf(griglia) < NUM_ORIENTATIONS + 2 + MaxAttached
    /\ \E layer \in LayerArgs(Self), layer_name \in LayerNames :
           Call(add_layer(Self, layer, layer_name))

IsObstacle ==
    \E x \in Xs(Self), y \in Ys(Self) : Call(Return(Self, is_obstacle(Self, x, y)))

IsSink ==
    \E x \in Xs(Self), y \in Ys(Self) : Call(Return(Self, is_sink(Self, x, y)))

\* query_lattice_state returns the tensor bound to self.griglia
query_lattice_state(self) == Return(self, self.griglia)

QueryLatticeState ==
    Call(query_lattice_state(Self))

NextLayers ==
    \/ AddLayer
    \/ SetObstacle
    \/ SetSink
    \/ IsObstacle
    \/ IsSink
    \/ AddParticle
    \/ QueryLatticeState

SpecLayers == InitRow /\ [][NextLayers]_vars

\* ===================================================================
\* The older implementation: the particle_lattice ParticleLattice
\* (src/particle_lattice/core/particle_lattice.py)
\* ===================================================================
\* Its object is a record with the fields width, height, num_layers,
\* lattice and layer_indices.  It keeps no views: every method reads and
\* writes self.lattice.  The names of its methods are those of the source
\* with the prefix legacy_, where the name is taken by the vlmc class.

LEGACY_ORIENTATION_LAYERS == <<"up", "down", "left", "right">>

LegacyXs(self) == 0 .. self.width - 1
LegacyYs(self) == 0 .. self.height - 1
LegacyLayers(self) == DOMAIN self.lattice

\* ------------------------------------------------------------ add_layer
legacy_add_layer(self, layer, layer_name) ==
    IF shape(layer) # <<self.height, self.width>>
    THEN Raise(self, "ValueError")
    ELSE Return([self EXCEPT
             !.lattice = cat(self.lattice, layer),
             !.layer_indices =
                 [k \in DOMAIN self.layer_indices \cup {layer_name} |->
                     IF k = layer_name THEN self.num_layers ELSE self.layer_indices[k]],
             !.num_layers = self.num_layers + 1], "None")

\* -------------------------------------------------------------- __init__
\* obstacles0, sink0: the set holding the mask passed in, empty for None.
legacy_init(w, h, obstacles0, sink0) ==
    LET s0 == [width |-> w, height |-> h, num_layers |-> NUM_ORIENTATIONS,
               lattice |-> [i \in Orientations |-> zeros(h, w)],
               layer_indices |->
                   [name \in {LEGACY_ORIENTATION_LAYERS[i] : i \in 1 .. NUM_ORIENTATIONS} |->
                       (CHOOSE i \in 1 .. NUM_ORIENTATIONS :
                            LEGACY_ORIENTATION_LAYERS[i] = name) - 1]]
        r1 == IF obstacles0 # {}
              THEN legacy_add_layer(s0, CHOOSE m \in obstacles0 : TRUE, "obstacles")
              ELSE Return(s0, "None")
        r2 == IF sink0 # {}
              THEN legacy_add_layer(r1.self, CHOOSE m \in sink0 : TRUE, "sink")
              ELSE Return(r1.self, "None")
    IN IF Raised(r1) THEN r1 ELSE r2

\* ------------------------------------------------------------- queries
\* lattice[:, y, x].any(): every layer of the tensor, the terrain layers too
legacy_is_empty(self, x, y) == ~ \E i \in LegacyLayers(self) : self.lattice[i][y][x]

legacy_is_obstacle(self, x, y) ==
    /\ "obstacles" \in DOMAIN self.layer_indices
    /\ self.lattice[self.layer_indices["obstacles"]][y][x]

legacy_is_sink(self, x, y) ==
    /\ "sink" \in DOMAIN self.layer_indices
    /\ self.lattice[self.layer_indices["sink"]][y][x]

\* nonzero over every layer; None for no set bit, and item() needs
\* exactly one
legacy_get_particle_orientation(self, x, y) ==
    LET orientation == {i \in LegacyLayers(self) : self.lattice[i][y][x]}
    IN IF orientation = {}
       THEN Return(self, "None")
       ELSE IF Cardinality(orientation) = 1
       THEN Return(self, CHOOSE i \in orientation : TRUE)
       ELSE Raise(self, "RuntimeError")

legacy_get_target_position(self, x, y, orientation) ==
    IF orientation < 0 \/ orientation >= NUM_ORIENTATIONS
    THEN Raise(self, "ValueError")
    ELSE IF orientation = self.layer_indices["up"]
         THEN Return(self, <<x, (y - 1) % self.height>>)
    ELSE IF orientation = self.layer_indices["down"]
         THEN Return(self, <<x, (y + 1) % self.height>>)
    ELSE IF orientation = self.layer_indices["left"]
         THEN Return(self, <<(x - 1) % self.width, y>>)
    ELSE IF orientation = self.layer_indices["right"]
         THEN Return(self, <<(x + 1) % self.width, y>>)
    ELSE Raise(self, "UnboundLocalError")

\* --------------------------------------------------------- add_particle
\* lattice[orientation, y, x] = True: the index runs over every layer of
\* the tensor, a negative index counts from the end.
legacy_add_particle(self, x, y, orientation) ==
    IF legacy_is_empty(self, x, y)
    THEN IF orientation \in -NumLayersOf(self.lattice) .. NumLayersOf(self.lattice) - 1
         THEN Return([self EXCEPT !.lattice =
                  SetBits(@, {orientation % NumLayersOf(self.lattice)}, y, x, TRUE)], "None")
         ELSE Raise(self, "IndexError")
    ELSE Raise(self, "ValueError")

\* ------------------------------------------------------ remove_particle
\* lattice[:, y, x] = False: every layer, the terrain layers too
legacy_remove_particle(self, x, y) ==
    Return([self EXCEPT !.lattice = SetBits(@, LegacyLayers(self), y, x, FALSE)], "None")

\* -------------------------------------------------------- move_particle
legacy_move_particle(self, x, y) ==
    IF legacy_is_empty(self, x, y)
    THEN Raise(self, "ValueError")
    ELSE
    LET ro == legacy_get_particle_orientation(self, x, y) IN
    IF Raised(ro) THEN ro ELSE
    LET orientation == ro.val
        rt == legacy_get_target_position(self, x, y, orientation) IN
    IF Raised(rt) THEN rt ELSE
    LET new_x == rt.val[1]
        new_y == rt.val[2]
        rr == legacy_remove_particle(self, x, y)
        ra == legacy_add_particle(rr.self, new_x, new_y, orientation) IN
    IF legacy_is_obstacle(self, new_x, new_y) \/ ~ legacy_is_empty(self, new_x, new_y)
    THEN Return(self, FALSE)
    ELSE IF legacy_is_sink(self, new_x, new_y)
    THEN Return(rr.self, TRUE)
    ELSE IF Raised(ra) THEN ra
    ELSE Return(ra.self, TRUE)

\* ---------------------------------------------------- reorient_particle
\* current_orientation is the tensor of the set layers at the cell; the
\* comparison with new_orientation is used as a condition, which needs a
\* tensor of one element.
legacy_reorient_particle(self, x, y, new_orientation) ==
    LET current_orientation == {i \in LegacyLayers(self) : self.lattice[i][y][x]}
    IN IF current_orientation = {}
       THEN Return(self, FALSE)
       ELSE IF Cardinality(current_orientation) # 1
       THEN Raise(self, "RuntimeError")
       ELSE IF current_orientation = {new_orientation}
       THEN Return(self, FALSE)
       ELSE IF new_orientation < 0 \/ new_orientation >= NUM_ORIENTATIONS
       THEN Return(self, FALSE)
       ELSE Return([self EXCEPT !.lattice =
                SetBits(SetBits(@, current_orientation, y, x, FALSE),
                        {new_orientation}, y, x, TRUE)], TRUE)

\* ----------------------------------------------------------- compute_TM
\* variant: the neighbour is taken from the opposite side
compute_TM_opposite(self, v0) ==
    LET empty_cells == [y \in LegacyYs(self) |-> [x \in LegacyXs(self) |->
            ~ \E i \in LegacyLayers(self) : self.lattice[i][y][x]]]
        TM == [y \in LegacyYs(self) |-> [x \in LegacyXs(self) |->
            \/ self.lattice[0][y][x] /\ roll(empty_cells, -1, 0)[y][x]
            \/ self.lattice[1][y][x] /\ roll(empty_cells, 1, 0)[y][x]
            \/ self.lattice[2][y][x] /\ roll(empty_cells, -1, 1)[y][x]
            \/ self.lattice[3][y][x] /\ roll(empty_cells, 1, 1)[y][x]]]
    IN Return(self, [y \in LegacyYs(self) |-> [x \in LegacyXs(self) |->
           IF TM[y][x] THEN v0 ELSE 0]])

\* The layers are taken by their fixed indices 0..3, not by name; as in
\* compute_tm the sum of the boolean products is their disjunction.
compute_TM(self, v0) ==
    LET empty_cells == [y \in LegacyYs(self) |-> [x \in LegacyXs(self) |->
            ~ \E i \in LegacyLayers(self) : self.lattice[i][y][x]]]
        TM_up == roll(empty_cells, 1, 0)
        TM_down == roll(empty_cells, -1, 0)
        TM_left == roll(empty_cells, 1, 1)
        TM_right == roll(empty_cells, -1, 1)
        TM == [y \in LegacyYs(self) |-> [x \in LegacyXs(self) |->
            \/ self.lattice[0][y][x] /\ TM_up[y][x]
            \/ self.lattice[1][y][x] /\ TM_down[y][x]
            \/ self.lattice[2][y][x] /\ TM_left[y][x]
            \/ self.lattice[3][y][x] /\ TM_right[y][x]]]
    IN Return(self, [y \in LegacyYs(self) |-> [x \in LegacyXs(self) |->
           IF TM[y][x] THEN v0 ELSE 0]])

\* ------------------------------------------------ the legacy lattice alone
\* A call of a method of the legacy lattice; the vlmc lattice is not touched.
LegacyCall(r) ==
    /\ legacy' = r.self
    /\ UNCHANGED <<width, height, num_layers, griglia, layer_indices, base, shared>>

\* None, or any mask of the shape
MaskOrNone(w, h) == {{}} \cup {{m} : m \in [0 .. h - 1 -> [0 .. w - 1 -> BOOLEAN]]}

\* A legacy line lattice constructed with any obstacles and sink arguments,
\* next to a vlmc lattice of the same size constructed with the defaults.
InitLegacy ==
    \E s \in LineShapes :
    \E obstacles0 \in MaskOrNone(s[1], s[2]), sink0 \in MaskOrNone(s[1], s[2]) :
    \E l \in {legacy_init(s[1], s[2], obstacles0, sink0)} :
    \E r \in {New(s[1], s[2], zeros(s[2], s[1]), zeros(s[2], s[1]), {}, <<>>)} :
           /\ ~ Raised(l)
           /\ ~ Raised(r)
           /\ width = r.self.width
           /\ height = r.self.height
           /\ num_layers = r.self.num_layers
           /\ griglia = r.self.griglia
           /\ layer_indices = r.self.layer_indices
           /\ base = r.self.base
           /\ shared = r.self.shared
           /\ legacy = l.self

LegacyAddParticle ==
    \E x \in LegacyXs(legacy), y \in LegacyYs(legacy), o \in OrientationArgs :
        \E r \in {legacy_add_particle(legacy, x, y, o)} : LegacyCall(r)

LegacyRemoveParticle ==
    \E x \in LegacyXs(legacy), y \in LegacyYs(legacy) :
        \E r \in {legacy_remove_particle(legacy, x, y)} : LegacyCall(r)

LegacyMoveParticle ==
    \E x \in LegacyXs(legacy), y \in LegacyYs(legacy) :
        \E r \in {legacy_move_particle(legacy, x, y)} : LegacyCall(r)

LegacyReorientParticle ==
    \E x \in LegacyXs(legacy), y \in LegacyYs(legacy), o \in OrientationArgs :
        \E r \in {legacy_reorient_particle(legacy, x, y, o)} : LegacyCall(r)

ComputeTM ==
    \E v0 \in V0Values : LegacyCall(compute_TM(legacy, v0))

NextLegacy ==
    \/ LegacyAddParticle
    \/ LegacyRemoveParticle
    \/ LegacyMoveParticle
    \/ LegacyReorientParticle
    \/ ComputeTM

SpecLegacy == InitLegacy /\ [][NextLegacy]_vars

\* ------------------------------------------- the two lattices side by side
\* The same call is made on a vlmc lattice and on a legacy lattice of the
\* same size, both without terrain; an orientation is passed by its name,
\* each lattice looking up its own index.
OrientationNames == {ORIENTATION_LAYERS[i] : i \in 1 .. NUM_ORIENTATIONS}

Both(r, l) ==
    /\ width' = r.self.width
    /\ height' = r.self.height
    /\ num_layers' = r.self.num_layers
    /\ griglia' = r.self.griglia
    /\ layer_indices' = r.self.layer_indices
    /\ base' = r.self.base
    /\ shared' = r.self.shared
    /\ legacy' = l.self

\* no terrain: the argument left at None, or a mask that is False everywhere
NoTerrain(w, h) == {{}, {zeros(h, w)}}

InitBoth ==
    \E s \in LineShapes :
    \E obstacles0 \in NoTerrain(s[1], s[2]), sink0 \in NoTerrain(s[1], s[2]) :
    \E l \in {legacy_init(s[1], s[2], obstacles0, sink0)} :
    \E r \in {New(s[1], s[2], zeros(s[2], s[1]), zeros(s[2], s[1]), {}, <<>>)} :
           /\ ~ Raised(l)
           /\ ~ Raised(r)
           /\ width = r.self.width
           /\ height = r.self.height
           /\ num_layers = r.self.num_layers
           /\ griglia = r.self.griglia
           /\ layer_indices = r.self.layer_indices
           /\ base = r.self.base
           /\ shared = r.self.shared
           /\ legacy = l.self

\* add_particle on a cell that is empty
BothAddParticle ==
    \E x \in Xs(Self), y \in Ys(Self), name \in OrientationNames :
        /\ is_empty(Self, x, y)
        /\ legacy_is_empty(legacy, x, y)
        /\ Both(add_particle(Self, x, y, layer_indices[name]),
                legacy_add_particle(legacy, x, y, legacy.layer_indices[name]))

BothRemoveParticle ==
    \E x \in Xs(Self), y \in Ys(Self) :
        Both(remove_particle(Self, x, y), legacy_remove_particle(legacy, x, y))

\* move_particle on a cell that is occupied
BothMoveParticle ==
    \E x \in Xs(Self), y \in Ys(Self) :
        /\ ~ is_empty(Self, x, y)
        /\ ~ legacy_is_empty(legacy, x, y)
        /\ Both(move_particle(Self, x, y), legacy_move_particle(legacy, x, y))

\* reorient_particle on a cell that is occupied
BothReorientParticle ==
    \E x \in Xs(Self), y \in Ys(Self), name \in OrientationNames :
        /\ ~ is_empty(Self, x, y)
        /\ ~ legacy_is_empty(legacy, x, y)
        /\ Both(reorient_particle(Self, x, y, layer_indices[name]),
                legacy_reorient_particle(legacy, x, y, legacy.layer_indices[name]))

BothComputeTm ==
    \E v0 \in V0Values : Both(compute_tm(Self, v0), compute_TM(legacy, v0))

NextBoth ==
    \/ BothAddParticle
    \/ BothRemoveParticle
    \/ BothMoveParticle
    \/ BothReorientParticle
    \/ BothComputeTm

SpecBoth == InitBoth /\ [][NextBoth]_vars

\* ===================================================================
\* Properties
\* ===================================================================

\* A property of a call is stated on the state the call is made in: the
\* outcome of the call is its operator applied to Self, which is what the
\* action of that call commits.

\* What a cell holds, read through the views.
OrientationBits(self, x, y) == {i \in Orientations : particles(self)[i][y][x]}
Occupied(self, x, y) == OrientationBits(self, x, y) # {}
ObstacleBit(self, x, y) == obstacles(self)[y][x]
SinkBit(self, x, y) == sinks(self)[y][x]
NumParticles(self) ==
    Cardinality({c \in Orientations \X Ys(self) \X Xs(self) : self.base[c[1]][c[2]][c[3]]})

\* self with all orientation bits of the cells in `cleared` reset and then
\* the orientation bits `set` (triples <<o, y, x>>) set, nothing else touched.
WithOccupancy(self, cleared, set) ==
    LET put(t) ==
            [l \in DOMAIN t |->
                [y \in DOMAIN t[l] |->
                    [x \in DOMAIN t[l][y] |->
                        IF <<l, y, x>> \in set THEN TRUE
                        ELSE IF l \in Orientations /\ <<x, y>> \in cleared THEN FALSE
                        ELSE t[l][y][x]]]]
    IN [self EXCEPT !.base = put(@), !.griglia = put(@)]

\* The cell a particle of orientation o at (x, y) heads for.
TargetOf(self, x, y, o) == get_target_position(self, x, y, o).val

\* ------------------------------------------------------------------- C1
\* C1: in every reachable state every cell has at most one of the four
\* orientation bits set.
C1_Exclusion ==
    \A x \in Xs(Self), y \in Ys(Self) :
        Cardinality(OrientationBits(Self, x, y)) <= 1

\* a state with two particles of different orientation, where a further
\* addParticle on one of them, with another orientation, is refused
C1_Witness ==
    \E x1 \in Xs(Self), y1 \in Ys(Self), x2 \in Xs(Self), y2 \in Ys(Self) :
        /\ OrientationBits(Self, x1, y1) = {0}
        /\ OrientationBits(Self, x2, y2) = {3}
        /\ Raised(add_particle(Self, x1, y1, 2))
        /\ Returned(reorient_particle(Self, x2, y2, 1), TRUE)

\* ------------------------------------------------------------------- C2
\* C2: in every reachable state no cell has both its obstacle bit and an
\* orientation bit set.
C2_NoParticleOnObstacle ==
    \A x \in Xs(Self), y \in Ys(Self) :
        ~ (ObstacleBit(Self, x, y) /\ Occupied(Self, x, y))

\* a particle facing an obstacle cell: the obstacle is empty, and neither
\* moving the particle nor adding one puts a particle on it
C2_Witness ==
    \E x \in Xs(Self), y \in Ys(Self) :
        /\ Occupied(Self, x, y)
        /\ LET t == TargetOf(Self, x, y, CHOOSE o \in OrientationBits(Self, x, y) : TRUE)
           IN /\ ObstacleBit(Self, t[1], t[2])
              /\ ~ Occupied(Self, t[1], t[2])
              /\ Returned(move_particle(Self, x, y), FALSE)
              /\ Raised(add_particle(Self, t[1], t[2], 0))

\* ------------------------------------------------------------------- C3
\* C3: in every reachable state no cell is simultaneously an obstacle and
\* a sink.
C3_TerrainExclusive ==
    \A x \in Xs(Self), y \in Ys(Self) :
        ~ (ObstacleBit(Self, x, y) /\ SinkBit(Self, x, y))

\* ------------------------------------------------------------------- C4
\* C4 as claimed: in every reachable state no cell has both its sink bit
\* and an orientation bit set.
C4_NoParticleOnSink ==
    \A x \in Xs(Self), y \in Ys(Self) :
        ~ (SinkBit(Self, x, y) /\ Occupied(Self, x, y))

OccupiedSinks(self) ==
    {c \in Xs(self) \X Ys(self) : SinkBit(self, c[1], c[2]) /\ Occupied(self, c[1], c[2])}

\* C4 amended: no moveParticle, reorientParticle, removeParticle,
\* setObstacle or setSink call, whatever its arguments and outcome, makes
\* a sink cell hold a particle that it did not hold before the call; only
\* the initial placement and addParticle put a particle on a sink.
C4_SinkEntryOnlyByPlacement ==
    \A x \in Xs(Self), y \in Ys(Self) :
        /\ OccupiedSinks(move_particle(Self, x, y).self) \subseteq OccupiedSinks(Self)
        /\ OccupiedSinks(remove_particle(Self, x, y).self) \subseteq OccupiedSinks(Self)
        /\ OccupiedSinks(set_obstacle(Self, x, y).self) \subseteq OccupiedSinks(Self)
        /\ OccupiedSinks(set_sink(Self, x, y).self) \subseteq OccupiedSinks(Self)
        /\ \A o \in OrientationArgs :
            OccupiedSinks(reorient_particle(Self, x, y, o).self) \subseteq OccupiedSinks(Self)

\* a particle facing a free sink cell while no sink holds a particle: the
\* move succeeds and still no sink holds a particle
C4_Witness ==
    /\ OccupiedSinks(Self) = {}
    /\ \E x \in Xs(Self), y \in Ys(Self) :
        /\ Occupied(Self, x, y)
        /\ LET t == TargetOf(Self, x, y, CHOOSE o \in OrientationBits(Self, x, y) : TRUE)
               r == move_particle(Self, x, y)
           IN /\ SinkBit(Self, t[1], t[2])
              /\ ~ ObstacleBit(Self, t[1], t[2])
              /\ ~ Occupied(Self, t[1], t[2])
              /\ Returned(r, TRUE)
              /\ OccupiedSinks(r.self) = {}

\* ------------------------------------------------------------------- C5
\* C5: a moveParticle that returns true leaves the particle count unchanged
\* when the target is not a sink and decreases it by exactly 1 when it is;
\* a moveParticle that returns false and every reorientParticle call leave
\* it unchanged; a successful addParticle increases it by exactly 1 and
\* removeParticle on an occupied cell decreases it by exactly 1.
C5_Conservation ==
    \A x \in Xs(Self), y \in Ys(Self) :
        LET n == NumParticles(Self)
            m == move_particle(Self, x, y)
            d == remove_particle(Self, x, y)
        IN /\ Returned(m, TRUE) =>
                LET t == TargetOf(Self, x, y, CHOOSE o \in OrientationBits(Self, x, y) : TRUE)
                IN NumParticles(m.self) = IF SinkBit(Self, t[1], t[2]) THEN n - 1 ELSE n
           /\ Returned(m, FALSE) => NumParticles(m.self) = n
           /\ Occupied(Self, x, y) => ~ Raised(d) /\ NumParticles(d.self) = n - 1
           /\ \A o \in OrientationArgs :
                LET a == add_particle(Self, x, y, o)
                IN /\ NumParticles(reorient_particle(Self, x, y, o).self) = n
                   /\ ~ Raised(a) => NumParticles(a.self) = n + 1

\* a particle facing a free sink, a second particle facing the first, and a
\* free plain cell: the first move is an absorption, the second is blocked,
\* the second particle can be reoriented and removed, and the free cell
\* takes a new particle
C5_Witness ==
    \E x1 \in Xs(Self), y1 \in Ys(Self), x2 \in Xs(Self), y2 \in Ys(Self) :
    \E x3 \in Xs(Self), y3 \in Ys(Self) :
        /\ Occupied(Self, x1, y1) /\ Occupied(Self, x2, y2)
        /\ LET t1 == TargetOf(Self, x1, y1, CHOOSE o \in OrientationBits(Self, x1, y1) : TRUE)
               t2 == TargetOf(Self, x2, y2, CHOOSE o \in OrientationBits(Self, x2, y2) : TRUE)
           IN /\ SinkBit(Self, t1[1], t1[2])
              /\ t2 = <<x1, y1>>
        /\ Returned(move_particle(Self, x1, y1), TRUE)
        /\ NumParticles(move_particle(Self, x1, y1).self) = 1
        /\ Returned(move_particle(Self, x2, y2), FALSE)
        /\ \E o \in Orientations : Returned(reorient_particle(Self, x2, y2, o), TRUE)
        /\ NumParticles(remove_particle(Self, x2, y2).self) = 1
        /\ ~ Occupied(Self, x3, y3) /\ ~ SinkBit(Self, x3, y3)
        /\ NumParticles(add_particle(Self, x3, y3, 1).self) = 3

\* ------------------------------------------------------------------- C6
\* C6: when (x,y) holds a particle of orientation o and its target cell is
\* unoccupied, not an obstacle and not a sink, moveParticle(x,y) returns
\* true, leaves (x,y) empty and the target holding exactly orientation o,
\* and changes no other cell's occupancy and no terrain bit.
C6_OrdinaryMove ==
    \A x \in Xs(Self), y \in Ys(Self), o \in Orientations :
        LET t == TargetOf(Self, x, y, o)
            r == move_particle(Self, x, y)
        IN (/\ OrientationBits(Self, x, y) = {o}
            /\ ~ Occupied(Self, t[1], t[2])
            /\ ~ ObstacleBit(Self, t[1], t[2])
            /\ ~ SinkBit(Self, t[1], t[2]))
           => /\ Returned(r, TRUE)
              /\ OrientationBits(r.self, x, y) = {}
              /\ OrientationBits(r.self, t[1], t[2]) = {o}
              /\ r.self = WithOccupancy(Self, {<<x, y>>}, {<<o, t[2], t[1]>>})

\* a right-oriented particle at (0,0) of a 2x2 lattice, the cell to its
\* right free, and a second particle below it: the move takes the first
\* to (1,0) and leaves the second where it is
C6_Witness ==
    /\ width = 2 /\ height = 2
    /\ OrientationBits(Self, 0, 0) = {layer_indices["right"]}
    /\ OrientationBits(Self, 0, 1) = {layer_indices["up"]}
    /\ ~ Occupied(Self, 1, 0) /\ ~ ObstacleBit(Self, 1, 0) /\ ~ SinkBit(Self, 1, 0)
    /\ Returned(move_particle(Self, 0, 0), TRUE)
    /\ OrientationBits(move_particle(Self, 0, 0).self, 1, 0) = {layer_indices["right"]}
    /\ OrientationBits(move_particle(Self, 0, 0).self, 0, 1) = {layer_indices["up"]}
    /\ ~ Occupied(move_particle(Self, 0, 0).self, 0, 0)

\* ------------------------------------------------------------------- C7
\* C7: when (x,y) holds a particle whose target cell is a sink that is
\* unoccupied and not an obstacle, moveParticle(x,y) returns true, leaves
\* (x,y) empty, places no particle anywhere, and leaves every other cell
\* and all terrain unchanged.
C7_SinkAbsorption ==
    \A x \in Xs(Self), y \in Ys(Self), o \in Orientations :
        LET t == TargetOf(Self, x, y, o)
            r == move_particle(Self, x, y)
        IN (/\ OrientationBits(Self, x, y) = {o}
            /\ SinkBit(Self, t[1], t[2])
            /\ ~ Occupied(Self, t[1], t[2])
            /\ ~ ObstacleBit(Self, t[1], t[2]))
           => /\ Returned(r, TRUE)
              /\ OrientationBits(r.self, x, y) = {}
              /\ OrientationBits(r.self, t[1], t[2]) = {}
              /\ r.self = WithOccupancy(Self, {<<x, y>>}, {})

\* a particle facing a free sink, with another particle on the lattice:
\* after the move only the other particle is left
C7_Witness ==
    \E x \in Xs(Self), y \in Ys(Self) :
        /\ Occupied(Self, x, y)
        /\ NumParticles(Self) = 2
        /\ LET t == TargetOf(Self, x, y, CHOOSE o \in OrientationBits(Self, x, y) : TRUE)
               r == move_particle(Self, x, y)
           IN /\ SinkBit(Self, t[1], t[2])
              /\ ~ Occupied(Self, t[1], t[2])
              /\ ~ ObstacleBit(Self, t[1], t[2])
              /\ Returned(r, TRUE)
              /\ NumParticles(r.self) = 1
              /\ ~ Occupied(r.self, t[1], t[2])

\* ------------------------------------------------------------------- C8
\* C8: when (x,y) holds a particle and its target cell is an obstacle or
\* already holds a particle (the source itself included, on a lattice of
\* width or height 1), moveParticle(x,y) returns false without raising and
\* leaves the whole lattice state unchanged.
C8_BlockedMove ==
    \A x \in Xs(Self), y \in Ys(Self), o \in Orientations :
        LET t == TargetOf(Self, x, y, o)
            r == move_particle(Self, x, y)
        IN (/\ OrientationBits(Self, x, y) = {o}
            /\ (ObstacleBit(Self, t[1], t[2]) \/ Occupied(Self, t[1], t[2])))
           => /\ Returned(r, FALSE)
              /\ r.self = Self

\* a lattice of width 1 and height 2 with an obstacle at (0,1) and a
\* left-oriented particle at (0,0): its target is its own cell and the move
\* is refused; turned downwards it faces the obstacle and is refused again
C8_Witness ==
    /\ width = 1 /\ height = 2
    /\ ObstacleBit(Self, 0, 1)
    /\ OrientationBits(Self, 0, 0) = {layer_indices["left"]}
    /\ TargetOf(Self, 0, 0, layer_indices["left"]) = <<0, 0>>
    /\ Returned(move_particle(Self, 0, 0), FALSE)
    /\ Returned(move_particle(reorient_particle(Self, 0, 0, layer_indices["down"]).self, 0, 0), FALSE)

\* ------------------------------------------------------------------- C9
\* C9: when (x,y) holds no particle, moveParticle(x,y), getOrientation(x,y)
\* and reorientParticle(x,y,o) with o in 0..3 each raise, never return a
\* value, and leave the lattice state unchanged.
C9_EmptyCellErrors ==
    \A x \in Xs(Self), y \in Ys(Self) :
        ~ Occupied(Self, x, y) =>
            /\ Raised(move_particle(Self, x, y))
            /\ move_particle(Self, x, y).self = Self
            /\ Raised(get_particle_orientation(Self, x, y))
            /\ get_particle_orientation(Self, x, y).self = Self
            /\ \A o \in Orientations :
                /\ Raised(reorient_particle(Self, x, y, o))
                /\ reorient_particle(Self, x, y, o).self = Self

\* an empty plain cell next to a particle, an empty sink and an empty
\* obstacle, on all of which the three calls raise
C9_Witness ==
    \E x1 \in Xs(Self), y1 \in Ys(Self), x2 \in Xs(Self), y2 \in Ys(Self) :
    \E x3 \in Xs(Self), y3 \in Ys(Self) :
        /\ ~ Occupied(Self, x1, y1) /\ ~ ObstacleBit(Self, x1, y1) /\ ~ SinkBit(Self, x1, y1)
        /\ ~ Occupied(Self, x2, y2) /\ SinkBit(Self, x2, y2)
        /\ ~ Occupied(Self, x3, y3) /\ ObstacleBit(Self, x3, y3)
        /\ NumParticles(Self) = 1
        /\ move_particle(Self, x1, y1).exc = "ValueError"
        /\ get_particle_orientation(Self, x2, y2).exc = "ValueError"
        /\ reorient_particle(Self, x3, y3, 2).exc = "ValueError"

\* ------------------------------------------------------------------ C10
\* C10: addParticle(x,y,o), o in 0..3, raises and leaves the lattice
\* unchanged when the cell already holds a particle or is an obstacle (an
\* empty obstacle cell still reads as empty afterwards); otherwise it sets
\* exactly the bit occupancy[o][y][x] and changes nothing else.
C10_GuardedPlacement ==
    \A x \in Xs(Self), y \in Ys(Self), o \in Orientations :
        LET r == add_particle(Self, x, y, o)
        IN IF Occupied(Self, x, y) \/ ObstacleBit(Self, x, y)
           THEN /\ Raised(r)
                /\ r.self = Self
                /\ is_empty(Self, x, y) => is_empty(r.self, x, y)
           ELSE /\ ~ Raised(r)
                /\ r.self = WithOccupancy(Self, {}, {<<o, y, x>>})

\* an empty obstacle cell, an occupied cell and a free cell (a sink): the
\* first two refuse a particle, the third takes it
C10_Witness ==
    \E x1 \in Xs(Self), y1 \in Ys(Self), x2 \in Xs(Self), y2 \in Ys(Self) :
    \E x3 \in Xs(Self), y3 \in Ys(Self) :
        /\ ObstacleBit(Self, x1, y1) /\ is_empty(Self, x1, y1)
        /\ add_particle(Self, x1, y1, 0).exc = "ValueError"
        /\ is_empty(add_particle(Self, x1, y1, 0).self, x1, y1)
        /\ Occupied(Self, x2, y2)
        /\ add_particle(Self, x2, y2, 1).exc = "ValueError"
        /\ ~ Occupied(Self, x3, y3) /\ SinkBit(Self, x3, y3) /\ ~ ObstacleBit(Self, x3, y3)
        /\ OrientationBits(add_particle(Self, x3, y3, 3).self, x3, y3) = {3}

\* ------------------------------------------------------------------ C11
\* C11: for a cell holding a particle of orientation c,
\* reorient_particle(x, y, c) returns False and leaves the whole object as
\* it was, and so does the same call made again after it.
C11_NoOpReorientation ==
    \A x \in Xs(Self), y \in Ys(Self), c \in Orientations :
        OrientationBits(Self, x, y) = {c}
        => \E r \in {reorient_particle(Self, x, y, c)} :
               /\ Returned(r, FALSE)
               /\ r.self = Self
               /\ \E r2 \in {reorient_particle(r.self, x, y, c)} :
                      Returned(r2, FALSE) /\ r2.self = Self

\* a 3x1 lattice whose middle cell holds a left-oriented particle between
\* two other particles, reoriented to the left
C11_Witness ==
    /\ width = 3 /\ height = 1
    /\ OrientationBits(Self, 1, 0) = {layer_indices["left"]}
    /\ Occupied(Self, 0, 0) /\ Occupied(Self, 2, 0)
    /\ Returned(reorient_particle(Self, 1, 0, layer_indices["left"]), FALSE)

\* ------------------------------------------------------------------ C12
\* C12: for a cell holding a particle of orientation c and n in 0..3 other
\* than c, reorient_particle(x, y, n) returns True, the cell then holds
\* exactly orientation n (get_particle_orientation returns n), and no other
\* cell's orientation bits and no terrain bit change.
C12_SuccessfulReorientation ==
    \A x \in Xs(Self), y \in Ys(Self), c \in Orientations :
        OrientationBits(Self, x, y) = {c}
        => \A n \in Orientations \ {c} :
           \E r \in {reorient_particle(Self, x, y, n)} :
               /\ Returned(r, TRUE)
               /\ OrientationBits(r.self, x, y) = {n}
               /\ Returned(get_particle_orientation(r.self, x, y), n)
               /\ r.self = WithOccupancy(Self, {<<x, y>>}, {<<n, y, x>>})

\* a 1x3 lattice with an up-oriented particle on a sink at (0,1), a second
\* particle at (0,0) and an obstacle at (0,2): the first is turned down
C12_Witness ==
    /\ width = 1 /\ height = 3
    /\ OrientationBits(Self, 0, 1) = {layer_indices["up"]}
    /\ SinkBit(Self, 0, 1)
    /\ Occupied(Self, 0, 0)
    /\ ObstacleBit(Self, 0, 2)
    /\ \E r \in {reorient_particle(Self, 0, 1, layer_indices["down"])} :
           /\ Returned(r, TRUE)
           /\ OrientationBits(r.self, 0, 1) = {layer_indices["down"]}

\* ------------------------------------------------------------------ C13
\* The neighbour of (x, y) in the named direction, by the claim's formula.
PeriodicNeighbour(self, x, y, name) ==
    IF name = "up" THEN <<x, (y - 1) % self.height>>
    ELSE IF name = "down" THEN <<x, (y + 1) % self.height>>
    ELSE IF name = "left" THEN <<(x - 1) % self.width, y>>
    ELSE <<(x + 1) % self.width, y>>

DirectionNames == {ORIENTATION_LAYERS[i] : i \in 1 .. NUM_ORIENTATIONS}

\* C13: for every cell in range and each of up, down, left, right,
\* get_target_position returns the cell in range one step that way with
\* wrap-around; from (0,0) left is (width-1,0), from (width-1,0) right is
\* (0,0); the object is unchanged.
C13_PeriodicTarget ==
    /\ \A x \in Xs(Self), y \in Ys(Self), name \in DirectionNames :
       \E r \in {get_target_position(Self, x, y, layer_indices[name])} :
           /\ ~ Raised(r)
           /\ r.val = PeriodicNeighbour(Self, x, y, name)
           /\ r.val[1] \in Xs(Self) /\ r.val[2] \in Ys(Self)
           /\ r.self = Self
    /\ Returned(get_target_position(Self, 0, 0, layer_indices["left"]),
                <<width - 1, 0>>)
    /\ Returned(get_target_position(Self, width - 1, 0, layer_indices["right"]),
                <<0, 0>>)

\* a lattice three cells wide, where the left neighbour of (0,0) is (2,0)
\* and differs from its right neighbour (1,0)
C13_Witness ==
    /\ width = 3
    /\ Returned(get_target_position(Self, 0, 0, layer_indices["left"]), <<2, 0>>)
    /\ Returned(get_target_position(Self, 0, 0, layer_indices["right"]), <<1, 0>>)
    /\ Returned(get_target_position(Self, 2, 0, layer_indices["right"]), <<0, 0>>)

\* ------------------------------------------------------------------ C14
\* C14: get_target_position(x, y, o) and reorient_particle(x, y, o) raise
\* for every orientation index o below 0 or above 3, on occupied and on
\* empty cells alike, and leave the object unchanged.
C14_InvalidOrientation ==
    \A x \in Xs(Self), y \in Ys(Self), o \in OrientationArgs \ Orientations :
        /\ \E r \in {get_target_position(Self, x, y, o)} :
               Raised(r) /\ r.self = Self
        /\ \E r \in {reorient_particle(Self, x, y, o)} :
               Raised(r) /\ r.self = Self

\* a lattice with an occupied cell and an empty one, asked for orientation
\* -1 on the first and 4 on the second
C14_Witness ==
    /\ width = 2 /\ height = 1
    /\ Occupied(Self, 0, 0) /\ ~ Occupied(Self, 1, 0)
    /\ Raised(reorient_particle(Self, 0, 0, -1))
    /\ Raised(reorient_particle(Self, 1, 0, NUM_ORIENTATIONS))
    /\ Raised(get_target_position(Self, 0, 0, NUM_ORIENTATIONS))
    /\ Raised(get_target_position(Self, 1, 0, -1))

\* ------------------------------------------------------------------ C15
\* A particle of the named orientation is at (x, y) and the periodic
\* neighbour in that direction holds no particle and is not an obstacle.
CanMigrate(self, x, y, name) ==
    LET t == PeriodicNeighbour(self, x, y, name)
    IN /\ self.layer_indices[name] \in OrientationBits(self, x, y)
       /\ ~ Occupied(self, t[1], t[2])
       /\ ~ ObstacleBit(self, t[1], t[2])

\* C15 as stated: compute_tm gives, for each orientation o and cell (x, y),
\* v0 if a particle of orientation o is at (x, y) and its periodic
\* neighbour in direction o holds no particle and is not an obstacle, and
\* 0 otherwise.
C15_PerOrientationRate ==
    \A v0 \in V0Values :
    \E r \in {compute_tm(Self, v0)} :
        /\ ~ Raised(r)
        /\ DOMAIN r.val = Orientations
        /\ \A o \in Orientations : DOMAIN r.val[o] = Ys(Self)
        /\ \A name \in DirectionNames, y \in Ys(Self), x \in Xs(Self) :
               r.val[layer_indices[name]][y][x]
                   = IF CanMigrate(Self, x, y, name) THEN v0 ELSE 0

\* C15, amended: compute_tm gives one rate per cell (x, y), not one per
\* orientation: v0 if the cell holds a particle, of whichever orientation
\* o, whose periodic neighbour in direction o holds no particle and is not
\* an obstacle, and 0 otherwise; a sink target counts like any other cell
\* that is not an obstacle.
C15_MigrationRatePerCell ==
    \A v0 \in V0Values :
    \E r \in {compute_tm(Self, v0)} :
        /\ ~ Raised(r)
        /\ DOMAIN r.val = Ys(Self)
        /\ \A y \in Ys(Self) :
           /\ DOMAIN r.val[y] = Xs(Self)
           /\ \A x \in Xs(Self) :
                  r.val[y][x]
                      = IF \E name \in DirectionNames : CanMigrate(Self, x, y, name)
                        THEN v0 ELSE 0

\* a 3x1 lattice: an obstacle at (0,0), a right-oriented particle at (1,0)
\* and a free sink at (2,0); with v0 = MaxV0 the rate is MaxV0 at (1,0)
\* and 0 at the other two cells
C15_Witness ==
    /\ width = 3 /\ height = 1
    /\ ObstacleBit(Self, 0, 0)
    /\ OrientationBits(Self, 1, 0) = {layer_indices["right"]}
    /\ SinkBit(Self, 2, 0) /\ ~ Occupied(Self, 2, 0) /\ ~ ObstacleBit(Self, 2, 0)
    /\ MaxV0 \in V0Values
    /\ \E r \in {compute_tm(Self, MaxV0)} :
           r.val[0][0] = 0 /\ r.val[0][1] = MaxV0 /\ r.val[0][2] = 0

\* ------------------------------------------------------------------ C16
\* A float32 rate that is a number and not below zero.
NonNegative(v) == v.kind \in {"zero", "exp", "inf"}

\* C16: for v0 >= 0 and any g, the migration rate and the reorientation
\* rate toward every orientation are >= 0 at every cell and exactly 0 at
\* every cell without a particle.
C16_RatesVanishOnEmpty ==
    /\ \A v0 \in V0Values :
       \E tm \in {compute_tm(Self, v0).val} :
       \A y \in Ys(Self), x \in Xs(Self) :
           /\ tm[y][x] >= 0
           /\ ~ Occupied(Self, x, y) => tm[y][x] = 0
    /\ \A g \in GValues :
       \E tr \in {compute_tr(Self, g).val} :
       \A o \in Orientations, y \in Ys(Self), x \in Xs(Self) :
           /\ NonNegative(tr[o][y][x])
           /\ ~ Occupied(Self, x, y) => tr[o][y][x] = FZero

\* ------------------------------------------------------------------ C17
\* C17: at every cell holding a particle of orientation c, the
\* reorientation rate toward c is exactly 0 and the rate toward each other
\* orientation is exp(g * score), a positive number, where score is the
\* cell's entry of compute_log_tr for that orientation.
C17_RateExcludesCurrent ==
    \A g \in GValues :
    \E tr \in {compute_tr(Self, g).val} :
    \E log_tr \in {compute_log_tr(Self).val} :
    \A x \in Xs(Self), y \in Ys(Self), c \in Orientations :
        OrientationBits(Self, x, y) = {c}
        => /\ tr[c][y][x] = FZero
           /\ \A o \in Orientations \ {c} :
                  /\ tr[o][y][x] = exp(g * log_tr[o][y][x])
                  /\ tr[o][y][x].kind \in {"exp", "inf"}

\* ------------------------------------------------------------------ C18
\* C18: compute_tm, compute_log_tr, compute_tr, compute_order_parameter and
\* get_statistics return without raising and leave every orientation,
\* obstacle and sink bit, and the rest of the object, as it was.
C18_RatesReadOnly ==
    /\ \A v0 \in V0Values :
       \E r \in {compute_tm(Self, v0)} : ~ Raised(r) /\ r.self = Self
    /\ \A g \in GValues :
       \E r \in {compute_tr(Self, g)} : ~ Raised(r) /\ r.self = Self
    /\ \E r \in {compute_log_tr(Self)} : ~ Raised(r) /\ r.self = Self
    /\ \E r \in {compute_order_parameter(Self)} : ~ Raised(r) /\ r.self = Self
    /\ \E r \in {get_statistics(Self)} : ~ Raised(r) /\ r.self = Self

\* a 1x3 lattice with an up-oriented particle at (0,1) whose target (0,0)
\* is free, so that it has a migration rate, and a second particle at (0,2)
C18_Witness ==
    /\ width = 1 /\ height = 3
    /\ OrientationBits(Self, 0, 1) = {layer_indices["up"]}
    /\ ~ Occupied(Self, 0, 0) /\ ~ ObstacleBit(Self, 0, 0)
    /\ Occupied(Self, 0, 2)
    /\ \E r \in {compute_tm(Self, MaxV0)} : r.val[1][0] = MaxV0 /\ r.self = Self
    /\ \E r \in {compute_tr(Self, 1)} :
           r.val[layer_indices["left"]][1][0].kind = "exp" /\ r.self = Self

\* ------------------------------------------------------------------ C19
\* The number of particles of the named orientation.
CountOf(self, name) == sum(particles(self)[self.layer_indices[name]])

\* C19: compute_order_parameter returns exactly 0 when there are as many
\* up- as down-oriented particles and as many left- as right-oriented
\* ones (an empty lattice included), the names being those of the layer
\* mapping.
C19_ZeroWhenCancelling ==
    (/\ CountOf(Self, "up") = CountOf(Self, "down")
     /\ CountOf(Self, "left") = CountOf(Self, "right"))
    => \E r \in {compute_order_parameter(Self)} :
           ~ Raised(r) /\ r.val.num = 0

\* ------------------------------------------------------------------ C20
\* C20: the order parameter lies in [0, 1], that is, the squared length of
\* the summed orientation vectors is at most the square of the number of
\* particles, and it is 1 when there are particles and all of them share
\* one orientation.
C20_OrderParameterBounds ==
    \E r \in {compute_order_parameter(Self)} :
        /\ ~ Raised(r)
        /\ r.val.den > 0
        /\ 0 <= r.val.num /\ r.val.num <= r.val.den
        /\ \A name \in DirectionNames :
               (CountOf(Self, name) = NumParticles(Self) /\ NumParticles(Self) > 0)
               => (r.val.num = r.val.den /\ r.val.den = NumParticles(Self) * NumParticles(Self))

\* three particles in a row, all down-oriented: the order parameter is 1
C20_Witness ==
    /\ width = 3 /\ height = 1
    /\ \A x \in Xs(Self) : OrientationBits(Self, x, 0) = {layer_indices["down"]}
    /\ \E r \in {compute_order_parameter(Self)} :
           r.val.num = 9 /\ r.val.den = 9

\* ------------------------------------------------------------------ C21
\* A lattice of width 1 and height 3 whose only terrain is a sink at (0,2)
\* and whose only particle is at (0,0), with the named orientation.
SinkScenario(self, name) ==
    /\ self.width = 1 /\ self.height = 3
    /\ \A y \in Ys(self) : ~ ObstacleBit(self, 0, y) /\ (SinkBit(self, 0, y) <=> y = 2)
    /\ OrientationBits(self, 0, 0) = {self.layer_indices[name]}
    /\ NumParticles(self) = 1

\* C21 as stated: in the sink scenario with an up-oriented particle the
\* first moveParticle(0,0) returns true and leaves the particle on the
\* lattice, at its target, and a second moveParticle there returns true
\* and leaves the lattice with no particle.
C21_AbsorbedAfterTwoMoves ==
    SinkScenario(Self, "up")
    => \E t \in {TargetOf(Self, 0, 0, layer_indices["up"])} :
       \E r1 \in {move_particle(Self, 0, 0)} :
           /\ Returned(r1, TRUE)
           /\ NumParticles(r1.self) = 1
           /\ OrientationBits(r1.self, t[1], t[2]) = {layer_indices["up"]}
           /\ \E r2 \in {move_particle(r1.self, t[1], t[2])} :
                  /\ Returned(r2, TRUE)
                  /\ NumParticles(r2.self) = 0

\* C21, amended: the cell above (0,0) is, with wrap-around, the sink (0,2),
\* so with an up-oriented particle the first moveParticle(0,0) returns
\* true and leaves the lattice with no particle, and a second
\* moveParticle(0,0) raises and changes nothing.  It is a down-oriented
\* particle that takes two moves: the first returns true and puts it at
\* (0,1), the second, at (0,1), returns true and leaves no particle.
C21_AbsorbedByFirstMove ==
    /\ SinkScenario(Self, "up")
       => \E r1 \in {move_particle(Self, 0, 0)} :
              /\ TargetOf(Self, 0, 0, layer_indices["up"]) = <<0, 2>>
              /\ Returned(r1, TRUE)
              /\ NumParticles(r1.self) = NumParticles(Self) - 1
              /\ r1.self = WithOccupancy(Self, {<<0, 0>>}, {})
              /\ \E r2 \in {move_particle(r1.self, 0, 0)} :
                     Raised(r2) /\ r2.self = r1.self
    /\ SinkScenario(Self, "down")
       => \E r1 \in {move_particle(Self, 0, 0)} :
              /\ Returned(r1, TRUE)
              /\ r1.self = WithOccupancy(Self, {<<0, 0>>}, {<<layer_indices["down"], 1, 0>>})
              /\ \E r2 \in {move_particle(r1.self, 0, 1)} :
                     /\ Returned(r2, TRUE)
                     /\ NumParticles(r2.self) = 0
                     /\ r2.self = WithOccupancy(Self, {<<0, 0>>}, {})

\* the scenario itself: the up-oriented particle at (0,0) faces the sink
\* and its first move empties the lattice
C21_Witness ==
    /\ SinkScenario(Self, "up")
    /\ Returned(move_particle(Self, 0, 0), TRUE)
    /\ NumParticles(move_particle(Self, 0, 0).self) = 0
    /\ Raised(move_particle(move_particle(Self, 0, 0).self, 0, 0))

\* ------------------------------------------------------------------ C22
\* self with the bit of cell (x, y) set in the layer l of both tensors,
\* nothing else touched.
WithTerrain(self, l, x, y) ==
    [self EXCEPT !.base[l][y][x] = TRUE, !.griglia[l][y][x] = TRUE]

\* C22: for a cell in range, set_obstacle raises and changes nothing if
\* the cell holds a particle or is a sink, and set_sink raises and changes
\* nothing if the cell holds a particle or is an obstacle; otherwise the
\* call returns, sets the obstacle (resp. sink) bit of that cell and
\* nothing else, and over terrain of the same kind it leaves the object
\* unchanged.
C22_GuardedTerrain ==
    \A x \in Xs(Self), y \in Ys(Self) :
        /\ \E r \in {set_obstacle(Self, x, y)} :
               IF Occupied(Self, x, y) \/ SinkBit(Self, x, y)
               THEN Raised(r) /\ r.self = Self
               ELSE /\ ~ Raised(r)
                    /\ ObstacleBit(r.self, x, y)
                    /\ r.self = WithTerrain(Self, ObstaclesViewLayer, x, y)
                    /\ ObstacleBit(Self, x, y) => r.self = Self
        /\ \E r \in {set_sink(Self, x, y)} :
               IF Occupied(Self, x, y) \/ ObstacleBit(Self, x, y)
               THEN Raised(r) /\ r.self = Self
               ELSE /\ ~ Raised(r)
                    /\ SinkBit(r.self, x, y)
                    /\ r.self = WithTerrain(Self, SinksViewLayer, x, y)
                    /\ SinkBit(Self, x, y) => r.self = Self

\* a 3x1 lattice with an obstacle at (0,0), a sink at (1,0) and a particle
\* at (2,0): each setter is refused on the other kind of terrain and on
\* the particle, and returns on its own kind
C22_Witness ==
    /\ width = 3 /\ height = 1
    /\ ObstacleBit(Self, 0, 0) /\ ~ SinkBit(Self, 0, 0)
    /\ SinkBit(Self, 1, 0) /\ ~ ObstacleBit(Self, 1, 0) /\ ~ Occupied(Self, 1, 0)
    /\ Occupied(Self, 2, 0) /\ ~ SinkBit(Self, 2, 0)
    /\ Raised(set_obstacle(Self, 1, 0)) /\ Raised(set_obstacle(Self, 2, 0))
    /\ Raised(set_sink(Self, 0, 0)) /\ Raised(set_sink(Self, 2, 0))
    /\ Returned(set_obstacle(Self, 0, 0), "None")
    /\ Returned(set_sink(Self, 1, 0), "None")

\* ------------------------------------------------------------------ C23
\* C23: for every cell in range remove_particle returns without raising,
\* leaves the cell with no orientation bit and every other cell and all
\* terrain as they were; on an empty cell and on an obstacle cell it
\* leaves the whole object unchanged.
C23_UnconditionalRemoval ==
    \A x \in Xs(Self), y \in Ys(Self) :
    \E r \in {remove_particle(Self, x, y)} :
        /\ ~ Raised(r)
        /\ OrientationBits(r.self, x, y) = {}
        /\ r.self = WithOccupancy(Self, {<<x, y>>}, {})
        /\ (~ Occupied(Self, x, y) \/ ObstacleBit(Self, x, y)) => r.self = Self

\* a 1x3 lattice with a particle at (0,0), an empty plain cell at (0,1) and
\* an obstacle at (0,2): the particle is removed, the other two calls
\* change nothing
C23_Witness ==
    /\ width = 1 /\ height = 3
    /\ Occupied(Self, 0, 0)
    /\ ~ Occupied(Self, 0, 1) /\ ~ ObstacleBit(Self, 0, 1)
    /\ ObstacleBit(Self, 0, 2)
    /\ NumParticles(remove_particle(Self, 0, 0).self) = 0
    /\ Returned(remove_particle(Self, 0, 1), "None")
    /\ remove_particle(Self, 0, 1).self = Self
    /\ Returned(remove_particle(Self, 0, 2), "None")
    /\ remove_particle(Self, 0, 2).self = Self

\* ------------------------------------------------------------------ C24
\* The cell numbers among `positions` that are obstacle cells of self.
OnObstacles(self, positions) ==
    {p \in positions : ObstacleBit(self, p % self.width, p \div self.width)}

\* C24: for the shape and the masks of any lattice that holds no particle,
\* every density in [0, 1] and every draw of positions and orientations, construction
\* returns without raising; in the lattice it leaves, every particle is on
\* a drawn cell that is no obstacle and has the orientation drawn for it,
\* no cell holds two orientation bits, and the number of particles is
\* floor(density * width * height) less the drawn positions on obstacle
\* cells.
C24_InitialPlacement ==
    NumParticles(Self) = 0 =>
    \A density \in Densities :
    \A positions \in choice(width * height, num_particles(Self, density)) :
    \A orientations \in [positions -> Orientations] :
    \E r \in {New(width, height, obstacles(Self), sinks(Self), positions, orientations)} :
        /\ ~ Raised(r)
        /\ obstacles(r.self) = obstacles(Self) /\ sinks(r.self) = sinks(Self)
        /\ \A x \in Xs(Self), y \in Ys(Self) :
               /\ Cardinality(OrientationBits(r.self, x, y)) <= 1
               /\ OrientationBits(r.self, x, y) \subseteq 0 .. 3
               /\ Occupied(r.self, x, y)
                  => /\ ~ ObstacleBit(r.self, x, y)
                     /\ y * width + x \in positions
                     /\ OrientationBits(r.self, x, y) = {orientations[y * width + x]}
        /\ NumParticles(r.self) * DensitySteps <= density * width * height
        /\ NumParticles(r.self)
               = (density * width * height) \div DensitySteps
                 - Cardinality(OnObstacles(Self, positions))

\* a 3x1 lattice with an obstacle at (0,0), constructed with density 1: all
\* three cells are drawn, the draw on the obstacle is skipped and the
\* other two cells hold a particle
C24_Witness ==
    /\ width = 3 /\ height = 1
    /\ ObstacleBit(Self, 0, 0) /\ ~ ObstacleBit(Self, 1, 0) /\ ~ ObstacleBit(Self, 2, 0)
    /\ num_particles(Self, DensitySteps) = 3
    /\ \E orientations \in [{0, 1, 2} -> Orientations] :
       \E r \in {New(width, height, obstacles(Self), sinks(Self), {0, 1, 2}, orientations)} :
           /\ ~ Raised(r)
           /\ r.self = Self
           /\ NumParticles(Self) = 2

\* ------------------------------------------------------------------ C25
\* The four periodic neighbours of (x, y), one entry per direction, so that
\* a cell that is a neighbour twice is listed twice.
FourNeighbours(self, x, y) ==
    <<PeriodicNeighbour(self, x, y, "left"), PeriodicNeighbour(self, x, y, "right"),
      PeriodicNeighbour(self, x, y, "up"), PeriodicNeighbour(self, x, y, "down")>>

\* How many of the four neighbours hold a particle of the named orientation.
CountAround(self, x, y, name) ==
    Cardinality({i \in 1 .. 4 :
        self.layer_indices[name] \in
            OrientationBits(self, FourNeighbours(self, x, y)[i][1],
                                  FourNeighbours(self, x, y)[i][2])})

Opposite(name) ==
    IF name = "up" THEN "down"
    ELSE IF name = "down" THEN "up"
    ELSE IF name = "left" THEN "right"
    ELSE "left"

\* C25: for every cell and orientation the entry of compute_log_tr is the
\* number of the four periodic neighbours, with multiplicity, holding that
\* orientation minus the number holding the opposite one; so the entry
\* for an orientation is the negative of the entry for its opposite.
C25_PeriodicAlignmentScore ==
    \E r \in {compute_log_tr(Self)} :
        /\ ~ Raised(r)
        /\ DOMAIN r.val = Orientations
        /\ \A name \in DirectionNames, y \in Ys(Self), x \in Xs(Self) :
               /\ r.val[layer_indices[name]][y][x]
                      = CountAround(Self, x, y, name) - CountAround(Self, x, y, Opposite(name))
               /\ r.val[layer_indices[name]][y][x]
                      = 0 - r.val[layer_indices[Opposite(name)]][y][x]

\* a 3x1 lattice with a right-oriented particle at (2,0) only: the empty
\* cell (0,0) at the left edge sees it as its left neighbour, and the
\* particle's own cell sees itself twice, as upper and lower neighbour
C25_Witness ==
    /\ width = 3 /\ height = 1
    /\ OrientationBits(Self, 2, 0) = {layer_indices["right"]}
    /\ ~ Occupied(Self, 0, 0) /\ ~ Occupied(Self, 1, 0)
    /\ \E r \in {compute_log_tr(Self)} :
           /\ r.val[layer_indices["right"]][0][0] = 1
           /\ r.val[layer_indices["left"]][0][0] = -1
           /\ r.val[layer_indices["right"]][0][2] = 2
           /\ r.val[layer_indices["up"]][0][0] = 0

\* ------------------------------------------------------------------ C26
\* C26: under any sequence of add_particle, remove_particle, move_particle,
\* reorient_particle, set_obstacle and set_sink calls, a cell that is an
\* obstacle (resp. a sink) is an obstacle (resp. a sink) after every
\* further call: no step clears a terrain bit.
C26_TerrainPermanent ==
    [][\A x \in Xs(Self), y \in Ys(Self) :
          /\ ObstacleBit(Self, x, y) => ObstacleBit(Self, x, y)'
          /\ is_obstacle(Self, x, y) => is_obstacle(Self, x, y)'
          /\ SinkBit(Self, x, y) => SinkBit(Self, x, y)'
          /\ is_sink(Self, x, y) => is_sink(Self, x, y)']_vars

\* a 3x1 lattice with an obstacle at (0,0), a right-oriented particle at
\* (1,0) and a sink at (2,0): the particle is absorbed by the sink, the
\* obstacle is asked to give up a particle and to become a sink, the sink
\* to become an obstacle, and both are still there
C26_Witness ==
    /\ width = 3 /\ height = 1
    /\ ObstacleBit(Self, 0, 0) /\ ~ SinkBit(Self, 0, 0)
    /\ OrientationBits(Self, 1, 0) = {layer_indices["right"]}
    /\ SinkBit(Self, 2, 0) /\ ~ ObstacleBit(Self, 2, 0) /\ ~ Occupied(Self, 2, 0)
    /\ Returned(move_particle(Self, 1, 0), TRUE)
    /\ SinkBit(move_particle(Self, 1, 0).self, 2, 0)
    /\ ObstacleBit(remove_particle(Self, 0, 0).self, 0, 0)
    /\ ObstacleBit(set_sink(Self, 0, 0).self, 0, 0)
    /\ SinkBit(set_obstacle(Self, 2, 0).self, 2, 0)
    /\ ~ ObstacleBit(set_obstacle(Self, 2, 0).self, 2, 0)

\* ------------------------------------------------------------------ C27
\* C27: in every reachable state, whenever move_particle or
\* reorient_particle gets as far as removing the particle, the add_particle
\* that follows does not raise; so every call either raises or returns
\* False with the object as it was, or returns True with its full effect:
\* the cell cleared and the particle set at the target (nowhere, for a
\* sink), resp. set again at the cell with the new orientation.
C27_TwoStepAtomic ==
    \A x \in Xs(Self), y \in Ys(Self) :
        /\ \E r \in {move_particle(Self, x, y)} :
               /\ (Raised(r) \/ Returned(r, FALSE)) => r.self = Self
               /\ ~ Raised(r) => r.val \in BOOLEAN
               /\ Returned(r, TRUE) =>
                      \E o \in OrientationBits(Self, x, y) :
                      \E t \in {TargetOf(Self, x, y, o)} :
                          /\ ~ Raised(add_particle(remove_particle(Self, x, y).self, t[1], t[2], o))
                          /\ r.self = WithOccupancy(Self, {<<x, y>>},
                                 IF SinkBit(Self, t[1], t[2]) THEN {} ELSE {<<o, t[2], t[1]>>})
        /\ \A n \in OrientationArgs :
           \E r \in {reorient_particle(Self, x, y, n)} :
               /\ (Raised(r) \/ Returned(r, FALSE)) => r.self = Self
               /\ ~ Raised(r) => r.val \in BOOLEAN
               /\ Returned(r, TRUE) =>
                      /\ ~ Raised(add_particle(remove_particle(Self, x, y).self, x, y, n))
                      /\ r.self = WithOccupancy(Self, {<<x, y>>}, {<<n, y, x>>})
        /\ Occupied(Self, x, y) =>
               \A n \in Orientations :
                   ~ Raised(add_particle(remove_particle(Self, x, y).self, x, y, n))

\* a 3x1 lattice with a right-oriented particle at (0,0), a free plain
\* cell at (1,0) and a particle on a sink at (2,0): the first moves in two
\* steps, the second is turned in two steps, and moved it is blocked by
\* the first (its target by wrap-around) with nothing lost
C27_Witness ==
    /\ width = 3 /\ height = 1
    /\ OrientationBits(Self, 0, 0) = {layer_indices["right"]}
    /\ ~ Occupied(Self, 1, 0) /\ ~ ObstacleBit(Self, 1, 0) /\ ~ SinkBit(Self, 1, 0)
    /\ OrientationBits(Self, 2, 0) = {layer_indices["right"]} /\ SinkBit(Self, 2, 0)
    /\ Returned(move_particle(Self, 0, 0), TRUE)
    /\ NumParticles(move_particle(Self, 0, 0).self) = 2
    /\ Returned(reorient_particle(Self, 2, 0, layer_indices["left"]), TRUE)
    /\ NumParticles(reorient_particle(Self, 2, 0, layer_indices["left"]).self) = 2
    /\ Returned(move_particle(Self, 2, 0), FALSE)

\* ------------------------------------------------------------------ C28
\* C28: in every reachable state and for v0 > 0, the migration rate at a
\* cell is non-zero exactly if move_particle on that cell returns True; at
\* a cell with a non-zero rate the move neither returns False nor raises.
C28_MigrationRateAgrees ==
    \A v0 \in V0Values \ {0} :
    \E tm \in {compute_tm(Self, v0).val} :
    \A x \in Xs(Self), y \in Ys(Self) :
    \E r \in {move_particle(Self, x, y)} :
        /\ tm[y][x] # 0 <=> Returned(r, TRUE)
        /\ tm[y][x] # 0 => Occupied(Self, x, y)
        /\ (Occupied(Self, x, y) /\ tm[y][x] = 0) => Returned(r, FALSE)

\* a 3x1 lattice with a left-oriented particle at (0,0) facing, by
\* wrap-around, a free sink at (2,0), and a left-oriented particle at
\* (1,0) facing the first: the first has a rate and its move is an
\* absorption, the second has none and its move is blocked
C28_Witness ==
    /\ width = 3 /\ height = 1
    /\ OrientationBits(Self, 0, 0) = {layer_indices["left"]}
    /\ OrientationBits(Self, 1, 0) = {layer_indices["left"]}
    /\ SinkBit(Self, 2, 0) /\ ~ ObstacleBit(Self, 2, 0) /\ ~ Occupied(Self, 2, 0)
    /\ \E tm \in {compute_tm(Self, MaxV0).val} :
           tm[0][0] = MaxV0 /\ tm[0][1] = 0 /\ tm[0][2] = 0
    /\ Returned(move_particle(Self, 0, 0), TRUE)
    /\ Returned(move_particle(Self, 1, 0), FALSE)
    /\ Raised(move_particle(Self, 2, 0))

\* ------------------------------------------------------------------ C29
\* C29: in every reachable state, for every cell (x, y) and orientation o
\* in 0..3, the reorientation rate for (o, x, y) is non-zero exactly if
\* reorient_particle(x, y, o) returns True.
C29_ReorientationRateAgrees ==
    \A g \in GValues :
    \E tr \in {compute_tr(Self, g).val} :
    \A x \in Xs(Self), y \in Ys(Self), o \in Orientations :
        tr[o][y][x] # FZero <=> Returned(reorient_particle(Self, x, y, o), TRUE)

\* ------------------------------------------------------------------ C30
\* C30: after add_layer(mask, name) with a terrain name, which is attached
\* already, the lookup by that name (is_obstacle resp. is_sink) returns
\* mask[y][x] for every cell, the lookup of the other terrain layer
\* returns what it returned before, and num_layers is unchanged.
C30_ReattachOverwrites ==
    \A mask \in Masks(Self) :
        /\ \E r \in {add_layer(Self, mask, "obstacles")} :
               /\ ~ Raised(r)
               /\ r.self.num_layers = num_layers
               /\ \A x \in Xs(Self), y \in Ys(Self) :
                      /\ is_obstacle(r.self, x, y) = mask[y][x]
                      /\ is_sink(r.self, x, y) = is_sink(Self, x, y)
        /\ \E r \in {add_layer(Self, mask, "sinks")} :
               /\ ~ Raised(r)
               /\ r.self.num_layers = num_layers
               /\ \A x \in Xs(Self), y \in Ys(Self) :
                      /\ is_sink(r.self, x, y) = mask[y][x]
                      /\ is_obstacle(r.self, x, y) = is_obstacle(Self, x, y)

\* ------------------------------------------------------------------ C31
\* C31: in every state reachable by construction, add_layer, the setters
\* and add_particle, a set_obstacle(x, y) that returns is followed by
\* is_obstacle(x, y) = True, a set_sink(x, y) that returns is followed by
\* is_sink(x, y) = True, and the tensor returned by query_lattice_state
\* holds a particle bit at (o, x, y) exactly if the cell is not empty and
\* get_particle_orientation(x, y) is o.
C31_ConsistentAfterAttach ==
    \A x \in Xs(Self), y \in Ys(Self) :
        /\ \E r \in {set_obstacle(Self, x, y)} :
               ~ Raised(r) => is_obstacle(r.self, x, y)
        /\ \E r \in {set_sink(Self, x, y)} :
               ~ Raised(r) => is_sink(r.self, x, y)
        /\ \E state \in {query_lattice_state(Self).val} :
           \A o \in Orientations :
               state[o][y][x] <=>
                   /\ ~ is_empty(Self, x, y)
                   /\ Returned(get_particle_orientation(Self, x, y), o)

\* ------------------------------------------------------------------ C32
\* a cell of the legacy lattice holds a particle: a bit in an orientation
\* layer
LegacyOccupied(self, x, y) == \E i \in Orientations : self.lattice[i][y][x]

\* C32: in the legacy lattice, when the cell (x, y) holds a particle whose
\* target cell is a sink cell that holds no particle and is not an
\* obstacle, move_particle(x, y) returns True and leaves no particle at
\* (x, y).
C32_LegacySinkAbsorption ==
    \A x \in LegacyXs(legacy), y \in LegacyYs(legacy), o \in Orientations :
    \E t \in {legacy_get_target_position(legacy, x, y, o).val} :
        (/\ legacy.lattice[o][y][x]
         /\ legacy_is_sink(legacy, t[1], t[2])
         /\ ~ LegacyOccupied(legacy, t[1], t[2])
         /\ ~ legacy_is_obstacle(legacy, t[1], t[2]))
        => \E r \in {legacy_move_particle(legacy, x, y)} :
               /\ Returned(r, TRUE)
               /\ ~ LegacyOccupied(r.self, x, y)

\* ------------------------------------------------------------------ C33
\* a call of the vlmc lattice and a call of the legacy lattice end alike:
\* both return the same value, or both raise the same exception
SameOutcome(r, l) == r.exc = l.exc /\ r.val = l.val

\* C33: a vlmc lattice and a legacy lattice of the same size, constructed
\* without obstacles and sinks and taken through the same add_particle on
\* empty cells, remove_particle, move_particle on occupied cells and
\* reorient_particle on occupied cells with a valid orientation (passed by
\* name), agree after every step: each cell is empty in both or holds a
\* particle of the same orientation name in both, each of these calls
\* ends alike in both, and compute_tm and compute_TM give the same rate at
\* every cell.
C33_ImplementationsAgree ==
    /\ legacy.width = width /\ legacy.height = height
    /\ \A x \in Xs(Self), y \in Ys(Self) :
        /\ is_empty(Self, x, y) = legacy_is_empty(legacy, x, y)
        /\ ~ is_empty(Self, x, y) =>
               \E name \in OrientationNames :
                   /\ Returned(get_particle_orientation(Self, x, y), layer_indices[name])
                   /\ Returned(legacy_get_particle_orientation(legacy, x, y),
                               legacy.layer_indices[name])
        /\ SameOutcome(remove_particle(Self, x, y), legacy_remove_particle(legacy, x, y))
        /\ is_empty(Self, x, y) =>
               \A name \in OrientationNames :
                   SameOutcome(add_particle(Self, x, y, layer_indices[name]),
                               legacy_add_particle(legacy, x, y, legacy.layer_indices[name]))
        /\ ~ is_empty(Self, x, y) =>
               /\ SameOutcome(move_particle(Self, x, y), legacy_move_particle(legacy, x, y))
               /\ \A name \in OrientationNames :
                      SameOutcome(reorient_particle(Self, x, y, layer_indices[name]),
                                  legacy_reorient_particle(legacy, x, y,
                                                           legacy.layer_indices[name]))
    /\ \A v0 \in V0Values :
           compute_tm(Self, v0).val = compute_TM(legacy, v0).val

\* Three cells in a row in both lattices: a right-facing particle at (0,0)
\* blocked by a left-facing one at (1,0), whose own target is (0,0); (2,0)
\* is free.  Neither moves and both rates are 0; by index "left" is 1 in
\* the vlmc lattice and 2 in the legacy lattice.
C33_Witness ==
    /\ width = 3 /\ height = 1 /\ legacy.width = 3 /\ legacy.height = 1
    /\ Returned(get_particle_orientation(Self, 0, 0), layer_indices["right"])
    /\ Returned(get_particle_orientation(Self, 1, 0), 1)
    /\ Returned(legacy_get_particle_orientation(legacy, 1, 0), 2)
    /\ is_empty(Self, 2, 0) /\ legacy_is_empty(legacy, 2, 0)
    /\ Returned(move_particle(Self, 0, 0), FALSE)
    /\ Returned(legacy_move_particle(legacy, 0, 0), FALSE)
    /\ Returned(legacy_reorient_particle(legacy, 1, 0, legacy.layer_indices["right"]), TRUE)
    /\ compute_TM(legacy, MaxV0).val[0][0] = 0
    /\ compute_TM(legacy, MaxV0).val[0][1] = 0
====
